---- MODULE Spec2Model ----
(***************************************************************************)
(* The equality-saturation engine of src/equisat/mod.rs: the e-node        *)
(* store, the union-find by label propagation, the canonicalizer, the      *)
(* rewrite RedundantAddSubChain and the two nested fixpoint loops, as a    *)
(* state machine over differential collections (bags with signed           *)
(* multiplicities).                                                        *)
(*                                                                         *)
(* A collection is a function from its records to their non-zero           *)
(* multiplicities.  A state holds the accumulated value of every           *)
(* collection at the current logical time (epoch, outer iteration, inner   *)
(* iteration); one action advances one coordinate of that time.            *)
(***************************************************************************)
EXTENDS Integers, FiniteSets, Sequences, TLC

\* Number of input batches the host feeds before it stops.
MaxEpoch == 3
\* Number of records the host inserts in its first batch.
MaxLoad == 4
\* Number of updates (insertions or retractions) in each later batch.
MaxBatch == 2
\* Number of copies of one record the host inserts where it inserts duplicates.
MaxMult == 2

-----------------------------------------------------------------------------
(* Identifiers and shapes                                                  *)

ENodeId(id) == <<"ENodeId", id>>
EClassId(id) == <<"EClassId", id>>
\* as_eclass through a 32-bit carrier: the upper half of the value is lost
as_eclass_low_half(enode) == EClassId(<<0, 0, enode[2][3], enode[2][4]>>)
as_enode(eclass) == ENodeId(eclass[2])
as_eclass(enode) == EClassId(enode[2])

Constant == <<"Constant">>
Add(lhs, rhs) == <<"Add", lhs, rhs>>
Sub(lhs, rhs) == <<"Sub", lhs, rhs>>
is_add(enode) == enode[1] = "Add"
is_sub(enode) == enode[1] = "Sub"
lhs(op) == op[2]
rhs(op) == op[3]

-----------------------------------------------------------------------------
(* Collections: bags with signed multiplicities                            *)

Mult(c, x) == IF x \in DOMAIN c THEN c[x] ELSE 0
MkBag(S, m(_)) == [x \in {y \in S : m(y) # 0} |-> m(x)]
Empty == MkBag({}, LAMBDA x : 0)

RECURSIVE SumMult(_, _)
SumMult(c, S) ==
    IF S = {} THEN 0
    ELSE LET x == CHOOSE y \in S : TRUE IN c[x] + SumMult(c, S \ {x})

concat(a, b) == MkBag(DOMAIN a \cup DOMAIN b, LAMBDA x : Mult(a, x) + Mult(b, x))
negate(a) == [x \in DOMAIN a |-> 0 - a[x]]
map(c, f(_)) ==
    MkBag({f(x) : x \in DOMAIN c},
          LAMBDA y : SumMult(c, {x \in DOMAIN c : f(x) = y}))
filter(c, p(_)) == [x \in {y \in DOMAIN c : p(y)} |-> c[x]]
reverse(c) == map(c, LAMBDA x : <<x[2], x[1]>>)
\* threshold with |_, _| R2::from(1): every record of non-zero multiplicity once
distinct_core(c) == [x \in DOMAIN c |-> 1]
\* join of two keyed collections; multiplicities multiply
join_core(a, b, f(_, _, _)) ==
    LET pairs == {p \in (DOMAIN a) \X (DOMAIN b) : p[1][1] = p[2][1]}
        prod == [p \in pairs |-> a[p[1]] * b[p[2]]]
    IN  map(prod, LAMBDA p : f(p[1][1], p[1][2], p[2][2]))

\* the least of a non-empty set of identifiers, by the carrier
MinId(S) == CHOOSE x \in S : \A y \in S : x[2] <= y[2]

MinInt(S) == CHOOSE x \in S : \A y \in S : x <= y
group(c, key) == {x[2] : x \in {y \in DOMAIN c : y[1] = key}}
keys(c) == {x[1] : x \in DOMAIN c}

-----------------------------------------------------------------------------
(* Union-find: label propagation (propagate_at of differential-dataflow)   *)

\* 64 - leading_zeros(v)
RECURSIVE significant_bits(_)
significant_bits(v) == IF v = 0 THEN 0 ELSE 1 + significant_bits(v \div 2)

\* the propagation round at which a seed label enters (logic = |&eclass| eclass.0)
introduced_at(label) == 256 * significant_bits(label[2])

\* labels_of taking a node's own label only while no neighbour offers one
labels_of_proposed(proposals, nodes) ==
    LET offered == concat(proposals,
                          filter(nodes, LAMBDA x : x[1] \notin keys(proposals)))
    IN  [x \in {<<k, MinId(group(offered, k))>> : k \in keys(offered)} |-> 1]

\* labels_of keeping the greatest label offered
labels_of_greatest(proposals, nodes) ==
    LET offered == concat(proposals, nodes)
        MaxId(S) == CHOOSE x \in S : \A y \in S : x[2] >= y[2]
    IN  [x \in {<<k, MaxId(group(offered, k))>> : k \in keys(offered)} |-> 1]

\* labels_of without the choice of one label: every label offered, once
labels_of_every(proposals, nodes) ==
    distinct_core(concat(proposals, nodes))

\* the "Propagate" reduce: per node the least label offered, once
labels_of(proposals, nodes) ==
    LET offered == concat(proposals, nodes)
    IN  [x \in {<<k, MinId(group(offered, k))>> : k \in keys(offered)} |-> 1]

\* propagate_step offering a node's own id, not its label, to its neighbours
propagate_step_own_id(labels, edges) ==
    join_core(labels, edges, LAMBDA k, l, d : <<d, as_eclass(k)>>)

\* one label for every neighbour of a labelled node
propagate_step(labels, edges) ==
    join_core(labels, edges, LAMBDA k, l, d : <<d, l>>)

\* the rounds of propagation from `round` on, to the fixpoint; rounds in
\* which nothing is in flight are skipped up to the next seed's round
RECURSIVE propagate_rounds(_, _, _, _)
propagate_rounds(edges, nodes, proposals, round) ==
    LET present == filter(nodes, LAMBDA x : introduced_at(x[2]) <= round)
        labels == labels_of(proposals, present)
        next == propagate_step(labels, edges)
        later == {introduced_at(x[2]) : x \in DOMAIN nodes} \ (0..round)
    IN  IF next # proposals THEN propagate_rounds(edges, nodes, next, round + 1)
        ELSE IF later # {} THEN propagate_rounds(edges, nodes, proposals, MinInt(later))
        ELSE labels

\* propagate_at stopping after one round: each node takes the least of its
\* own and its neighbours' seeds
propagate_at_one_round(edges, nodes) ==
    labels_of(propagate_step(labels_of(Empty, nodes), edges), nodes)

propagate_at(edges, nodes) == propagate_rounds(edges, nodes, Empty, 0)

\* canonicalized_edges without the reversed copy of each edge
canonicalized_edges_forward(eclass_parents) ==
    map(eclass_parents, LAMBDA e : <<as_enode(e[1]), as_enode(e[2])>>)

canonicalized_edges(eclass_parents) ==
    concat(map(eclass_parents, LAMBDA e : <<as_enode(e[1]), as_enode(e[2])>>),
           map(eclass_parents, LAMBDA e : <<as_enode(e[2]), as_enode(e[1])>>))

implicit_eclass_assignment(enodes) ==
    distinct_core(map(enodes, LAMBDA n : <<n[1], as_eclass(n[1])>>))

\* derive_canonical_eclass_ids seeding the endpoints of the merges as well
derive_canonical_eclass_ids_seed_endpoints(eclass_parents, enodes) ==
    propagate_at(canonicalized_edges(eclass_parents),
                 distinct_core(concat(implicit_eclass_assignment(enodes),
                                      map(canonicalized_edges(eclass_parents),
                                          LAMBDA e : <<e[1], as_eclass(e[1])>>))))

derive_canonical_eclass_ids(eclass_parents, enodes) ==
    propagate_at(canonicalized_edges(eclass_parents),
                 implicit_eclass_assignment(enodes))

-----------------------------------------------------------------------------
(* Canonicalizer: the body of the inner iterative scope of union()         *)

\* merge_input keeping only the merges that lead from a smaller id to a
\* greater one
merge_input_ascending(eclass_mergers, raw_eclass_mergers) ==
    distinct_core(filter(concat(eclass_mergers, raw_eclass_mergers),
                         LAMBDA m : m[1][2] < m[2][2]))

\* merge_input without the distinct_core
merge_input_unclamped(eclass_mergers, raw_eclass_mergers) ==
    concat(eclass_mergers, raw_eclass_mergers)

\* merge_input taking the rewrites' merges only while the variable is empty
merge_input_either(eclass_mergers, raw_eclass_mergers) ==
    distinct_core(IF eclass_mergers = Empty THEN raw_eclass_mergers ELSE eclass_mergers)

\* the merge edges handed to the union-find in one inner iteration
merge_input(eclass_mergers, raw_eclass_mergers) ==
    distinct_core(concat(eclass_mergers, raw_eclass_mergers))

eclass_union_find(union_find) ==
    map(union_find, LAMBDA x : <<as_eclass(x[1]), x[2]>>)

add_lhs(enodes) == map(filter(enodes, LAMBDA n : is_add(n[2])), LAMBDA n : <<lhs(n[2]), n[1]>>)
add_rhs(enodes) == map(filter(enodes, LAMBDA n : is_add(n[2])), LAMBDA n : <<rhs(n[2]), n[1]>>)
sub_lhs(enodes) == map(filter(enodes, LAMBDA n : is_sub(n[2])), LAMBDA n : <<lhs(n[2]), n[1]>>)
sub_rhs(enodes) == map(filter(enodes, LAMBDA n : is_sub(n[2])), LAMBDA n : <<rhs(n[2]), n[1]>>)

\* canon_slot keeping the raw operand of the slot
canon_slot_raw(slot, union_find) ==
    join_core(slot, eclass_union_find(union_find),
              LAMBDA k, parent_enode, eclass : <<parent_enode, k>>)

\* an operand slot joined with the union-find: (parent e-node, canonical operand)
canon_slot(slot, union_find) ==
    join_core(slot, eclass_union_find(union_find),
              LAMBDA k, parent_enode, eclass : <<parent_enode, eclass>>)

\* canon_enodes_by_shape without the operator: a Sub e-node gets the shape
\* of the Add over its operands
canon_enodes_by_shape_untagged(enodes, union_find) ==
    concat(join_core(canon_slot(add_lhs(enodes), union_find),
                     canon_slot(add_rhs(enodes), union_find),
                     LAMBDA enode, l, r : <<Add(l, r), enode>>),
           join_core(canon_slot(sub_lhs(enodes), union_find),
                     canon_slot(sub_rhs(enodes), union_find),
                     LAMBDA enode, l, r : <<Add(l, r), enode>>))

\* canon_enodes_by_shape with the operands of an Add put in order
canon_enodes_by_shape_sorted(enodes, union_find) ==
    concat(join_core(canon_slot(add_lhs(enodes), union_find),
                     canon_slot(add_rhs(enodes), union_find),
                     LAMBDA enode, l, r :
                         <<IF l[2] <= r[2] THEN Add(l, r) ELSE Add(r, l), enode>>),
           join_core(canon_slot(sub_lhs(enodes), union_find),
                     canon_slot(sub_rhs(enodes), union_find),
                     LAMBDA enode, l, r : <<Sub(l, r), enode>>))

\* canon_enodes_by_shape with the right operand left as it is in the store
canon_enodes_by_shape_raw_rhs(enodes, union_find) ==
    concat(join_core(canon_slot(add_lhs(enodes), union_find),
                     canon_slot_raw(add_rhs(enodes), union_find),
                     LAMBDA enode, l, r : <<Add(l, r), enode>>),
           join_core(canon_slot(sub_lhs(enodes), union_find),
                     canon_slot_raw(sub_rhs(enodes), union_find),
                     LAMBDA enode, l, r : <<Sub(l, r), enode>>))

\* canon_enodes_by_shape with the Constant e-nodes grouped as one more shape
canon_enodes_by_shape_leaves(enodes, union_find) ==
    concat(concat(join_core(canon_slot(add_lhs(enodes), union_find),
                            canon_slot(add_rhs(enodes), union_find),
                            LAMBDA enode, l, r : <<Add(l, r), enode>>),
                  join_core(canon_slot(sub_lhs(enodes), union_find),
                            canon_slot(sub_rhs(enodes), union_find),
                            LAMBDA enode, l, r : <<Sub(l, r), enode>>)),
           map(filter(enodes, LAMBDA n : n[2] = Constant), LAMBDA n : <<Constant, n[1]>>))

\* (canonical shape, e-node), before the reduce
canon_enodes_by_shape(enodes, union_find) ==
    concat(join_core(canon_slot(add_lhs(enodes), union_find),
                     canon_slot(add_rhs(enodes), union_find),
                     LAMBDA enode, l, r : <<Add(l, r), enode>>),
           join_core(canon_slot(sub_lhs(enodes), union_find),
                     canon_slot(sub_rhs(enodes), union_find),
                     LAMBDA enode, l, r : <<Sub(l, r), enode>>))

\* first_enode taking the last value of the group
first_enode_last(enode_ids) == CHOOSE x \in enode_ids : \A y \in enode_ids : x[2] >= y[2]

\* enodes[0] of a reduce group: the values arrive sorted
first_enode(enode_ids) == MinId(enode_ids)

\* skip_first skipping nothing
skip_none(enode_ids) == enode_ids

\* the rest of a reduce group: enodes.iter().skip(1)
skip_first(enode_ids) == enode_ids \ {first_enode(enode_ids)}

\* canon_edges linking every e-node of a group to the next one of the group
canon_edges_chain(by_shape) ==
    LET out == UNION {{<<k, <<a, b>>>> :
                          <<a, b>> \in {p \in group(by_shape, k) \X group(by_shape, k) :
                                           /\ p[1][2] < p[2][2]
                                           /\ \A c \in group(by_shape, k) :
                                                  ~(p[1][2] < c[2] /\ c[2] < p[2][2])}} :
                      k \in keys(by_shape)}
    IN  [x \in out |-> 1]

canon_edges(by_shape) ==
    LET out == UNION {{<<k, <<first_enode(group(by_shape, k)), e>>>> :
                          e \in skip_first(group(by_shape, k))} : k \in keys(by_shape)}
    IN  [x \in out |-> 1]

\* canon_enodes_of giving every e-node of a group, not one representative
canon_enodes_of_every(by_shape) == distinct_core(by_shape)

canon_enodes_of(by_shape) ==
    [x \in {<<k, first_enode(group(by_shape, k))>> : k \in keys(by_shape)} |-> 1]

canon_eclass_lookup(by_shape) ==
    LET canon_enode_edges ==
            map(canon_edges(by_shape), LAMBDA x : <<as_eclass(x[2][1]), as_eclass(x[2][2])>>)
    IN  concat(canon_enode_edges, reverse(canon_enode_edges))

-----------------------------------------------------------------------------
(* RedundantAddSubChain: (add ?x (sub ?y ?x)) => ?y                        *)

add_nodes(enodes) == filter(enodes, LAMBDA n : is_add(n[2]))
sub_nodes(enodes) == filter(enodes, LAMBDA n : is_sub(n[2]))
add_nodes_by_lhs(enodes) == map(add_nodes(enodes), LAMBDA n : <<lhs(n[2]), n>>)
sub_nodes_by_id(enodes) == sub_nodes(enodes)

eclass_raw_canon(eclass_lookup) ==
    map(eclass_lookup, LAMBDA x : <<as_eclass(x[1]), x[2]>>)
eclass_lookup_by_raw(eclass_lookup) == eclass_raw_canon(eclass_lookup)
eclass_lookup_by_canon(eclass_lookup) == reverse(eclass_raw_canon(eclass_lookup))
eclass_lookup_raw_canon_by_self(eclass_lookup) ==
    map(eclass_raw_canon(eclass_lookup), LAMBDA x : <<x, <<>>>>)

\* The left-deep chain of joins 1, 2, 3, 5, 4, 6 of the delta query, from the
\* change of the driving relation and the other relations as the chain sees
\* them.
changes_1(d_add_nodes_by_lhs, eclass_lookup_neu, sub_nodes_by_id_neu) ==
    LET j2 == join_core(d_add_nodes_by_lhs, eclass_lookup_by_raw(eclass_lookup_neu),
                  LAMBDA b_raw, v, b : <<rhs(v[2]), <<v[1], b>>>>)
        j3 == join_core(j2, eclass_lookup_by_raw(eclass_lookup_neu),
                  LAMBDA c_raw, v, c : <<c, v>>)
        j5 == join_core(j3, eclass_lookup_by_canon(eclass_lookup_neu),
                  LAMBDA c, v, d_raw : <<as_enode(d_raw), v>>)
        j4 == join_core(j5, sub_nodes_by_id_neu,
                  LAMBDA d_raw, v, sub : <<<<rhs(sub), v[2]>>, <<v[1], lhs(sub)>>>>)
        j6 == join_core(j4, eclass_lookup_raw_canon_by_self(eclass_lookup_neu),
                  LAMBDA k, v, unit : <<as_eclass(v[1]), v[2]>>)
    IN  j6

\* differentiate(): at the Alt time of t the driving relation holds its
\* change at t, the accumulation at t less the accumulation before t.
differentiate(now, before) == concat(now, negate(before))

-----------------------------------------------------------------------------
(* The host's repertoire                                                   *)

N(id) == ENodeId(id)
C(id) == EClassId(id)

\* What the host may feed in one run: the records it may insert and retract,
\* the merges it may assert through a closure rewrite, how many copies of
\* one of them it may hold, the items its first batch always carries, and
\* how many batches it sends.
\* The store of tests::union_find, two more e-nodes above it, and one merge.
ChainProgram ==
    [records |-> { <<N(0), Add(C(2), C(1))>>, <<N(1), Sub(C(3), C(2))>>,
                   <<N(2), Constant>>, <<N(3), Constant>>,
                   <<N(4), Sub(C(0), C(2))>>, <<N(5), Add(C(2), C(4))>> },
     merges |-> { <<C(0), C(3)>> },
     copies |-> 1, seed |-> {}, batches |-> MaxEpoch]
\* Two e-nodes of one shape and two constants, held in several copies.
DuplicateProgram ==
    [records |-> { <<N(0), Add(C(2), C(2))>>, <<N(1), Add(C(2), C(2))>>,
                   <<N(2), Constant>>, <<N(3), Constant>> },
     merges |-> {},
     copies |-> MaxMult, seed |-> {}, batches |-> MaxEpoch]
\* Three constants and merges that chain them, one of them in both directions.
PathProgram ==
    [records |-> { <<N(0), Constant>>, <<N(1), Constant>>, <<N(2), Constant>> },
     merges |-> { <<C(0), C(1)>>, <<C(1), C(2)>>, <<C(2), C(1)>> },
     copies |-> 1, seed |-> {}, batches |-> MaxEpoch]
\* Two e-nodes that differ in the order of their operands, a merge of the
\* operands and a merge of an operand with itself.
CommuteProgram ==
    [records |-> { <<N(0), Add(C(2), C(3))>>, <<N(1), Add(C(3), C(2))>>,
                   <<N(2), Constant>>, <<N(3), Constant>> },
     merges |-> { <<C(2), C(3)>>, <<C(3), C(3)>> },
     copies |-> 1, seed |-> {}, batches |-> MaxEpoch]
\* Four constants, loaded at once, and the merges of a 4-cycle over them.
DiamondProgram ==
    [records |-> { <<N(0), Constant>>, <<N(1), Constant>>, <<N(2), Constant>>,
                   <<N(3), Constant>> },
     merges |-> { <<C(0), C(1)>>, <<C(0), C(2)>>, <<C(1), C(3)>>, <<C(2), C(3)>> },
     copies |-> 1,
     seed |-> { <<N(0), Constant>>, <<N(1), Constant>>, <<N(2), Constant>>,
                <<N(3), Constant>> },
     batches |-> MaxEpoch - 1]
Programs == {ChainProgram, DuplicateProgram, PathProgram, CommuteProgram, DiamondProgram}

-----------------------------------------------------------------------------
(* State                                                                   *)

VARIABLES
    program,                  \* what the host may feed in this run
    epoch,                    \* input batches flushed so far
    enodes,                   \* EGraph.enodes: the host's stream, accumulated
    asserted,                 \* the merges asserted by the host, accumulated
    outer,                    \* iteration of the scope the EGraph lives in
    enodes_feedback,          \* EGraph.enodes_feedback at (epoch, outer)
    eclass_mergers_feedback,  \* EGraph.eclass_mergers_feedback at (epoch, outer)
    eclass_mergers,           \* the variable of the inner scope of union()
    union_find,               \* union_find of the current inner iteration
    canon_by_shape,           \* canon_enodes (reduced) of the current inner iteration
    enode_eclass_lookup,      \* EGraph.enode_eclass_lookup at (epoch, outer)
    canon_enodes,             \* EGraph.canon_enodes at (epoch, outer)
    chain_merges,             \* integrate() of the delta query, accumulated
    enodes_neu,               \* enodes_feedback accumulated at the times before (epoch, 1)
    eclass_lookup_neu,        \* enode_eclass_lookup accumulated at the times before (epoch, 1)
    pc,                       \* "idle", "inner" or "outer"
    arrived,                  \* the updates inserted one by one since the last flush
    calls,                    \* the add_enodes and add_rewrite calls made on the EGraph
    arg,                      \* the value a function of the crate is applied to
    result                    \* what the function returned

vars == <<program, epoch, enodes, asserted, outer, enodes_feedback, eclass_mergers_feedback,
          eclass_mergers, union_find, canon_by_shape, enode_eclass_lookup,
          canon_enodes, chain_merges, enodes_neu, eclass_lookup_neu, pc,
          arrived, calls, arg, result>>

\* what the engine's steps and the host's batches leave alone
others == <<arrived, calls, arg, result>>

Init ==
    /\ program \in Programs
    /\ epoch = 0
    /\ enodes = Empty
    /\ asserted = Empty
    /\ outer = 0
    /\ enodes_feedback = Empty
    /\ eclass_mergers_feedback = Empty
    /\ eclass_mergers = Empty
    /\ union_find = Empty
    /\ canon_by_shape = Empty
    /\ enode_eclass_lookup = Empty
    /\ canon_enodes = Empty
    /\ chain_merges = Empty
    /\ enodes_neu = Empty
    /\ eclass_lookup_neu = Empty
    /\ pc = "idle"
    /\ arrived = <<>>
    /\ calls = <<>>
    /\ arg = <<>>
    /\ result = <<>>

-----------------------------------------------------------------------------
(* The host: insert, advance_to, flush                                     *)

\* the batches of the items of `seed` and at most `size` more updates, each
\* one copy more or one copy less of an item, that keep every count in
\* 0..copies
Batches(items, acc, size, copies, seed) ==
    UNION {{b \in [S -> {-1, 1}] : \A x \in S : Mult(acc, x) + b[x] \in 0..copies} :
              S \in {T \in SUBSET items : /\ seed \subseteq T
                                          /\ T # {}
                                          /\ Cardinality(T \ seed) <= size}}

\* Advance with the batch written into the accumulation of the times before
\* it, as if it had been stamped with the time already observed
Advance_backdated ==
    /\ pc = "idle"
    /\ epoch < program.batches
    /\ \E b \in Batches(program.records \cup program.merges, concat(enodes, asserted),
                         IF epoch = 0 THEN MaxLoad ELSE MaxBatch, program.copies,
                         IF epoch = 0 THEN program.seed ELSE {}) :
          /\ enodes' = concat(enodes, filter(b, LAMBDA x : x \in program.records))
          /\ asserted' = concat(asserted, filter(b, LAMBDA x : x \in program.merges))
    /\ enodes_neu' = enodes'
    /\ epoch' = epoch + 1
    /\ outer' = 0
    /\ enodes_feedback' = Empty
    /\ eclass_mergers_feedback' = Empty
    /\ eclass_mergers' = Empty
    /\ union_find' = Empty
    /\ canon_by_shape' = Empty
    /\ enode_eclass_lookup' = Empty
    /\ canon_enodes' = Empty
    /\ pc' = "inner"
    /\ UNCHANGED <<program, chain_merges, eclass_lookup_neu, others>>

Advance ==
    /\ pc = "idle"
    /\ epoch < program.batches
    /\ \E b \in Batches(program.records \cup program.merges, concat(enodes, asserted),
                         IF epoch = 0 THEN MaxLoad ELSE MaxBatch, program.copies,
                         IF epoch = 0 THEN program.seed ELSE {}) :
          /\ enodes' = concat(enodes, filter(b, LAMBDA x : x \in program.records))
          /\ asserted' = concat(asserted, filter(b, LAMBDA x : x \in program.merges))
    /\ epoch' = epoch + 1
    /\ outer' = 0
    /\ enodes_feedback' = Empty
    /\ eclass_mergers_feedback' = Empty
    /\ eclass_mergers' = Empty
    /\ union_find' = Empty
    /\ canon_by_shape' = Empty
    /\ enode_eclass_lookup' = Empty
    /\ canon_enodes' = Empty
    /\ pc' = "inner"
    /\ UNCHANGED <<program, chain_merges, enodes_neu, eclass_lookup_neu, others>>

-----------------------------------------------------------------------------
(* The worker: one iteration of the inner scope of union()                 *)

\* the inner scope is left when its variable no longer changes
inner_converged(next, current) == next = current

InnerStep ==
    /\ pc = "inner"
    /\ LET uf == derive_canonical_eclass_ids(
                     merge_input(eclass_mergers, eclass_mergers_feedback),
                     enodes_feedback)
           by_shape == canon_enodes_by_shape(enodes_feedback, uf)
           next == canon_eclass_lookup(by_shape)
       IN  /\ union_find' = uf
           /\ canon_by_shape' = canon_enodes_of(by_shape)
           /\ eclass_mergers' = next
           /\ pc' = IF inner_converged(next, eclass_mergers) THEN "outer" ELSE "inner"
    /\ UNCHANGED <<program, epoch, enodes, asserted, outer, enodes_feedback,
                   eclass_mergers_feedback, enode_eclass_lookup, canon_enodes,
                   chain_merges, enodes_neu, eclass_lookup_neu, others>>

-----------------------------------------------------------------------------
(* The worker: leave the inner scope, run the rewrites, feed back          *)

\* the change the delta query integrates at (epoch, outer): the driving
\* relation changes at outer iteration 1 only, where the feedback variable
\* delivers the batch
chain_change ==
    IF outer = 1
    THEN changes_1(differentiate(add_nodes_by_lhs(enodes_feedback),
                                 add_nodes_by_lhs(enodes_neu)),
                   eclass_lookup_neu, sub_nodes_by_id(enodes_neu))
    ELSE Empty

\* the feedback variable holding the insertions of the batch without its
\* retractions: the records of the times before stay beside the new ones
enodes_set_insertions_only(streams) == distinct_core(concat(streams, enodes_neu))

\* the feedback variable holding the store with the canonical e-nodes of the
\* iteration written back into it
enodes_set_canonicalized(streams) ==
    distinct_core(concat(streams, reverse(canon_by_shape)))

\* the feedback variable holding the output of the rewrite registered first
\* alone
eclass_mergers_set_first_only(closure_merges, chain) ==
    IF closure_merges # Empty THEN closure_merges ELSE chain

\* EGraph::feedback: what the two feedback variables are set to, the
\* concatenation of the streams and of the rewrites' outputs
enodes_set(streams) == streams
eclass_mergers_set(closure_merges, chain) == concat(closure_merges, chain)

\* outer_settled looking at the e-nodes alone
outer_settled_enodes_only(iteration, next_enodes, next_mergers) ==
    /\ iteration >= 1
    /\ next_enodes = enodes_feedback

\* the outer scope is quiescent when the feedback variables no longer
\* change; the first iteration only delivers the batch
outer_settled(iteration, next_enodes, next_mergers) ==
    /\ iteration >= 1
    /\ next_enodes = enodes_feedback
    /\ next_mergers = eclass_mergers_feedback

OuterStep ==
    /\ pc = "outer"
    /\ LET chain == concat(chain_merges, chain_change)
           rewrites == eclass_mergers_set(asserted, IF outer >= 1 THEN chain ELSE Empty)
           settled == outer_settled(outer, enodes_set(enodes), rewrites)
       IN  /\ enode_eclass_lookup' = union_find
           /\ canon_enodes' = reverse(canon_by_shape)
           /\ chain_merges' = chain
           /\ IF outer = 1
              THEN /\ enodes_neu' = enodes_feedback
                   /\ eclass_lookup_neu' = union_find
              ELSE UNCHANGED <<enodes_neu, eclass_lookup_neu>>
           /\ IF settled
              THEN /\ pc' = "idle"
                   /\ UNCHANGED <<outer, enodes_feedback, eclass_mergers_feedback,
                                  eclass_mergers>>
              ELSE /\ pc' = "inner"
                   /\ outer' = outer + 1
                   /\ enodes_feedback' = enodes_set(enodes)
                   /\ eclass_mergers_feedback' = rewrites
                   /\ eclass_mergers' = Empty
    /\ UNCHANGED <<program, epoch, enodes, asserted, union_find, canon_by_shape, others>>

Next == Advance \/ InnerStep \/ OuterStep

Spec == Init /\ [][Next]_vars

\* The worker is stepped while the probe is behind the input
\* (worker.step_while), so a step that can be taken is taken.
\* InnerStep is enabled exactly when pc = "inner" and OuterStep exactly when
\* pc = "outer", and each changes pc, outer or the inner variable, so these
\* conjuncts are WF_vars(InnerStep) and WF_vars(OuterStep) written out.
FairSpec ==
    /\ Spec
    /\ ([]<>(pc # "inner") \/ []<><<InnerStep>>_vars)
    /\ ([]<>(pc # "outer") \/ []<><<OuterStep>>_vars)

-----------------------------------------------------------------------------
(* What the claims speak of                                                *)

\* the worker has stepped until the probe passed the input time
Quiescent == pc = "idle"

\* the ids of the e-nodes in the store
StoredIds == {x[1] : x \in DOMAIN enodes}

\* the canonical ids enode_to_eclass gives an e-node id
CanonOf(id) == group(enode_eclass_lookup, id)

\* the merge relation: the rewrites' outputs and the canonicalizer's edges
AllMerges == concat(eclass_mergers, eclass_mergers_feedback)
MergeEdges == {<<e[1][2], e[2][2]>> : e \in DOMAIN AllMerges}
PositiveMergeEdges == {<<e[1][2], e[2][2]>> : e \in {f \in DOMAIN AllMerges : AllMerges[f] > 0}}

\* the carrier values an undirected edge set connects to those of S
RECURSIVE Reachable(_, _)
Reachable(S, E) ==
    LET T == S \cup {e[2] : e \in {f \in E : f[1] \in S}}
               \cup {e[1] : e \in {f \in E : f[2] \in S}}
    IN  IF T = S THEN S ELSE Reachable(T, E)

\* two shapes of one operator whose operands all have canonical ids, the same ones
Congruent(s1, s2) ==
    /\ s1[1] = s2[1]
    /\ is_add(s1) \/ is_sub(s1)
    /\ \A i \in {2, 3} : /\ CanonOf(as_enode(s1[i])) # {}
                         /\ CanonOf(as_enode(s1[i])) = CanonOf(as_enode(s2[i]))

-----------------------------------------------------------------------------
\* C1: in a quiescent state any two e-nodes of the store with the same
\* operator whose operand slots canonicalize to the same tuple have the same
\* canonical id, also when their operands were merged by a congruence.
C1_Congruence ==
    Quiescent =>
        \A r1 \in DOMAIN enodes : \A r2 \in DOMAIN enodes :
            Congruent(r1[2], r2[2]) =>
                /\ CanonOf(r1[1]) # {}
                /\ CanonOf(r1[1]) = CanonOf(r2[1])

\* Add 0 and Add 5 share a class only because Sub 1 and Sub 4 do, which
\* share one only because 0 and 3 do: no rewrite merged 5 with anything.
C1_Witness ==
    /\ Quiescent
    /\ {<<N(0), Add(C(2), C(1))>>, <<N(5), Add(C(2), C(4))>>} \subseteq DOMAIN enodes
    /\ {<<N(5), C(0)>>, <<N(4), C(1)>>, <<N(1), C(1)>>} \subseteq DOMAIN enode_eclass_lookup
    /\ \A e \in DOMAIN eclass_mergers_feedback : C(5) \notin {e[1], e[2]}

\* C2 as claimed: in a quiescent state the canonical id of every e-node of
\* the store is the least of all ids its merge edges reach.
C2_LeastOfAllReachable ==
    Quiescent =>
        \A x \in StoredIds :
            CanonOf(x) = {EClassId(MinInt(Reachable({x[2]}, MergeEdges)))}

\* C2 amended: in a quiescent state the canonical id of every e-node of the
\* store is the least id of an e-node of the store that its merge edges reach.
C2_LeastStoredReachable ==
    Quiescent =>
        \A x \in StoredIds :
            CanonOf(x) = {EClassId(MinInt(Reachable({x[2]}, MergeEdges)
                                             \cap {y[2] : y \in StoredIds}))}

\* constants 0, 1, 2 with the merges (0,1) and (1,2) all map to 0
C2_Witness ==
    /\ Quiescent
    /\ StoredIds = {N(0), N(1), N(2)}
    /\ DOMAIN asserted = {<<C(0), C(1)>>, <<C(1), C(2)>>}
    /\ DOMAIN enode_eclass_lookup = {<<N(0), C(0)>>, <<N(1), C(0)>>, <<N(2), C(0)>>}

\* C3: in a quiescent state enode_to_eclass holds exactly one pair for every
\* id of the store, with multiplicity 1, whatever the multiplicities of the
\* e-nodes and of the merges.
C3_TotalAndFunctional ==
    Quiescent =>
        \A id \in StoredIds :
            \E c \in CanonOf(id) :
                /\ CanonOf(id) = {c}
                /\ enode_eclass_lookup[<<id, c>>] = 1

\* an e-node held twice, merged into the class of another
C3_Witness ==
    /\ Quiescent
    /\ \E r \in DOMAIN enodes : enodes[r] = 2 /\ CanonOf(r[1]) # {as_eclass(r[1])}

\* C4: in a quiescent state the canonical id of an e-node, when it is the id
\* of an e-node of the store, is its own canonical id.
C4_Idempotent ==
    Quiescent =>
        \A p \in DOMAIN enode_eclass_lookup :
            as_enode(p[2]) \in StoredIds => CanonOf(as_enode(p[2])) = {p[2]}

\* an e-node whose canonical id is the id of another e-node of the store,
\* two merge edges away
C4_Witness ==
    /\ Quiescent
    /\ {N(0), N(1), N(2)} \subseteq StoredIds
    /\ <<N(2), C(0)>> \in DOMAIN enode_eclass_lookup
    /\ <<0, 2>> \notin MergeEdges /\ <<2, 0>> \notin MergeEdges

\* C5: in a quiescent state two ids that the merges (rewrite outputs and
\* canonicalizer edges) connect have the same canonical ids.
C5_Complete ==
    Quiescent =>
        \A e \in PositiveMergeEdges :
            \A b \in Reachable({e[1]}, PositiveMergeEdges) :
                CanonOf(ENodeId(e[1])) = CanonOf(ENodeId(b))

\* 2 and 0 are connected by the merges (2,1) and (0,1) only
C5_Witness ==
    /\ Quiescent
    /\ StoredIds = {N(0), N(1), N(2)}
    /\ DOMAIN asserted = {<<C(0), C(1)>>, <<C(2), C(1)>>}
    /\ CanonOf(N(2)) = {C(0)}

\* the inner scope of union() run from an empty variable to its fixpoint
RECURSIVE inner_fixpoint(_, _, _)
inner_fixpoint(store, raw, variable) ==
    LET uf == derive_canonical_eclass_ids(merge_input(variable, raw), store)
        by_shape == canon_enodes_by_shape(store, uf)
        next == canon_eclass_lookup(by_shape)
    IN  IF inner_converged(next, variable)
        THEN [union_find |-> uf, canon_enodes |-> reverse(canon_enodes_of(by_shape)),
              eclass_mergers |-> next]
        ELSE inner_fixpoint(store, raw, next)

\* C6: when every Sub e-node has been retracted (or none was inserted), the
\* quiescent outputs are those of the remaining input alone, which without a
\* Sub gives the rule nothing to derive: the canonicalizer's result over the
\* store and the asserted merges, and no other merge.
C6_RetractionSound ==
    (Quiescent /\ sub_nodes(enodes) = Empty) =>
        LET alone == inner_fixpoint(enodes, asserted, Empty)
        IN  /\ enode_eclass_lookup = alone.union_find
            /\ canon_enodes = alone.canon_enodes
            /\ AllMerges = concat(alone.eclass_mergers, asserted)

\* C7: in a quiescent state, for every Add a with operands (x, s) and Sub d
\* with operands (y, x2) of the store with canon(s) = canon(d) and
\* canon(x) = canon(x2), y being stored too, the merge (a, y) is in the merge
\* relation and canon(a) = canon(y).
C7_ChainFires ==
    Quiescent =>
        \A a \in DOMAIN enodes : \A d \in DOMAIN enodes :
            ( /\ is_add(a[2]) /\ is_sub(d[2])
              /\ CanonOf(d[1]) # {}
              /\ as_enode(lhs(d[2])) \in StoredIds
              /\ CanonOf(as_enode(rhs(a[2]))) = CanonOf(d[1])
              /\ CanonOf(as_enode(lhs(a[2]))) # {}
              /\ CanonOf(as_enode(lhs(a[2]))) = CanonOf(as_enode(rhs(d[2]))) )
            => /\ <<a[1][2], lhs(d[2])[2]>> \in PositiveMergeEdges
               /\ CanonOf(a[1]) = CanonOf(as_enode(lhs(d[2])))

\* C8: in the quiescent state of the store of tests::union_find without its
\* Sub e-node (and with no asserted merge) there is no merge (0, 3), and 0
\* and 3 are their own canonical ids.
C8_MergeWithdrawn ==
    ( /\ Quiescent
      /\ DOMAIN enodes = {<<N(0), Add(C(2), C(1))>>, <<N(2), Constant>>, <<N(3), Constant>>}
      /\ asserted = Empty )
    => /\ <<0, 3>> \notin MergeEdges
       /\ CanonOf(N(0)) = {C(0)}
       /\ CanonOf(N(3)) = {C(3)}

\* C9: whenever the worker has steps to take, it reaches the state in which
\* no relation changes and it stops.
C9_Terminates == (pc # "idle") ~> (pc = "idle")

\* both loops went round more than once: the canonicalizer produced edges
\* and the rewrite produced a merge
C9_Witness ==
    /\ Quiescent
    /\ outer = 2
    /\ eclass_mergers # Empty
    /\ chain_merges # Empty

\* C10: in a quiescent state one more outer iteration (the feedback
\* variables set again, the inner scope run again to its fixpoint) and one
\* more inner iteration from the inner variable leave enode_to_eclass,
\* canonical_enodes and the merge relation as they are.
C10_Stable ==
    Quiescent =>
        LET raw == eclass_mergers_set(asserted, chain_merges)
            again == inner_fixpoint(enodes_set(enodes), raw, Empty)
            uf == derive_canonical_eclass_ids(merge_input(eclass_mergers, raw),
                                              enodes_set(enodes))
            by_shape == canon_enodes_by_shape(enodes_set(enodes), uf)
        IN  /\ raw = eclass_mergers_feedback
            /\ again.union_find = enode_eclass_lookup
            /\ again.canon_enodes = canon_enodes
            /\ again.eclass_mergers = eclass_mergers
            /\ uf = enode_eclass_lookup
            /\ reverse(canon_enodes_of(by_shape)) = canon_enodes
            /\ canon_eclass_lookup(by_shape) = eclass_mergers

\* a quiescent state that the rewrite's merge shaped: 3 is in the class of 0
C10_Witness ==
    /\ Quiescent
    /\ chain_merges # Empty
    /\ CanonOf(N(3)) = {C(0)}
    /\ {N(0), N(3)} \subseteq StoredIds

-----------------------------------------------------------------------------
\* the rewrites' outputs are empty: the engine runs as with no rewrite
NoRewriteOutput == eclass_mergers_feedback = Empty /\ chain_merges = Empty

\* the canonical id of an operand that has one
Canonical(o) == CHOOSE c \in CanonOf(as_enode(o)) : TRUE

\* an Add or Sub whose operands both have a canonical id
Structural(shape) ==
    /\ is_add(shape) \/ is_sub(shape)
    /\ CanonOf(as_enode(lhs(shape))) # {}
    /\ CanonOf(as_enode(rhs(shape))) # {}

\* the shape with its operands replaced by their canonical ids
CanonShape(shape) ==
    IF is_add(shape) \/ is_sub(shape)
    THEN <<shape[1], Canonical(lhs(shape)), Canonical(rhs(shape))>>
    ELSE shape

\* the canonical shape of any e-node: its own shape where it has no operand
\* to canonicalize or an operand without a canonical id
ShapeUnderCanon(shape) == IF Structural(shape) THEN CanonShape(shape) ELSE shape

\* the e-nodes of the store that the hash-cons groups
Hashconsed == {r \in DOMAIN enodes : Structural(r[2])}

\* the ids of the grouped e-nodes of one canonical shape
SameShape(shape) == {r[1] : r \in {q \in Hashconsed : CanonShape(q[2]) = shape}}

\* C11 as claimed: with no rewrite output, in a quiescent state the canonical
\* shape of every e-node of the store is in canonical_enodes exactly once,
\* with the least id of the e-nodes of that canonical shape.
C11_EveryENodeDeduplicated ==
    (Quiescent /\ NoRewriteOutput) =>
        \A r \in DOMAIN enodes :
            {e \in DOMAIN canon_enodes : e[2] = ShapeUnderCanon(r[2])}
                = {<<MinId({t[1] : t \in {q \in DOMAIN enodes :
                                ShapeUnderCanon(q[2]) = ShapeUnderCanon(r[2])}}),
                     ShapeUnderCanon(r[2])>>}

\* C11 amended: with no rewrite output, in a quiescent state canonical_enodes
\* is exactly, once each, the canonical shapes of the Add and Sub e-nodes of
\* the store whose operands are the ids of e-nodes, each with the least id of
\* the e-nodes of that canonical shape.
C11_StructuralDeduplicated ==
    (Quiescent /\ NoRewriteOutput) =>
        canon_enodes =
            [e \in {<<MinId(SameShape(CanonShape(r[2]))), CanonShape(r[2])>> : r \in Hashconsed}
                |-> 1]

\* two copies each of two e-nodes of one shape collapse to one entry
C11_Witness ==
    /\ Quiescent /\ NoRewriteOutput
    /\ Mult(enodes, <<N(0), Add(C(2), C(2))>>) = 2
    /\ Mult(enodes, <<N(1), Add(C(2), C(2))>>) = 2
    /\ <<N(2), Constant>> \in DOMAIN enodes
    /\ DOMAIN canon_enodes = {<<N(0), Add(C(2), C(2))>>}

\* C12: the canonicalizer's edges never touch the id of a Constant e-node;
\* with no rewrite output, in a quiescent state every Constant e-node is its
\* own canonical id, and Add e-nodes with identical operands have the least
\* of their ids as canonical id.
C12_ConstantsApart ==
    /\ \A e \in DOMAIN eclass_mergers : \A r \in DOMAIN enodes :
           r[2] = Constant => as_eclass(r[1]) \notin {e[1], e[2]}
    /\ (Quiescent /\ NoRewriteOutput) =>
           /\ \A r \in DOMAIN enodes :
                  r[2] = Constant => CanonOf(r[1]) = {as_eclass(r[1])}
           /\ \A r \in Hashconsed :
                  is_add(r[2]) =>
                      CanonOf(r[1]) = {as_eclass(MinId({q[1] : q \in {t \in DOMAIN enodes :
                                                                  t[2] = r[2]}}))}

\* the store {0: Add(2,2), 1: Add(2,2), 2: Constant, 3: Constant} and its canon
C12_Witness ==
    /\ Quiescent /\ NoRewriteOutput
    /\ DOMAIN enodes = {<<N(0), Add(C(2), C(2))>>, <<N(1), Add(C(2), C(2))>>,
                        <<N(2), Constant>>, <<N(3), Constant>>}
    /\ DOMAIN enode_eclass_lookup = {<<N(0), C(0)>>, <<N(1), C(0)>>,
                                     <<N(2), C(2)>>, <<N(3), C(3)>>}
    /\ DOMAIN canon_enodes = {<<N(0), Add(C(2), C(2))>>}

\* C13: in a quiescent state every entry of canonical_enodes has
\* multiplicity 1, no shape has two entries, every canonical shape of a
\* grouped e-node has one, and the id of an entry is the least id of the
\* e-nodes of the store whose operands canonicalize to its shape.
C13_OneRepresentative ==
    Quiescent =>
        /\ \A e \in DOMAIN canon_enodes :
               /\ canon_enodes[e] = 1
               /\ \A f \in DOMAIN canon_enodes : f[2] = e[2] => f = e
               /\ SameShape(e[2]) # {}
               /\ e[1] = MinId(SameShape(e[2]))
        /\ \A r \in Hashconsed : \E e \in DOMAIN canon_enodes : e[2] = CanonShape(r[2])

\* Add 0 and Add 5, and Sub 1 and Sub 4, share canonical shapes after the
\* merge (0,3): two entries for four e-nodes
C13_Witness ==
    /\ Quiescent
    /\ {N(0), N(1), N(4), N(5)} \subseteq StoredIds
    /\ DOMAIN canon_enodes = {<<N(0), Add(C(2), C(1))>>, <<N(1), Sub(C(0), C(2))>>}

\* C14: in a quiescent state every operand of every shape in
\* canonical_enodes is its own canonical id.
C14_CanonicalOperands ==
    Quiescent =>
        \A e \in DOMAIN canon_enodes :
            /\ CanonOf(as_enode(lhs(e[2]))) = {lhs(e[2])}
            /\ CanonOf(as_enode(rhs(e[2]))) = {rhs(e[2])}

\* an entry whose operand is not the operand the e-node has in the store
C14_Witness ==
    /\ Quiescent
    /\ <<N(1), Sub(C(3), C(2))>> \in DOMAIN enodes
    /\ <<N(4), Sub(C(0), C(2))>> \notin DOMAIN enodes
    /\ <<N(1), Sub(C(0), C(2))>> \in DOMAIN canon_enodes

\* the e-nodes of one canonical shape in the current inner iteration
GroupNow(shape) == group(canon_enodes_by_shape(enodes_feedback, union_find), shape)

\* C15: in every state (every inner iteration) no canonicalizer edge is a
\* self-loop, and an e-node that is alone in its canonical-shape group is
\* the representative of its shape and the endpoint of no canonicalizer edge.
C15_SingletonsSilent ==
    /\ \A e \in DOMAIN eclass_mergers : e[1] # e[2]
    /\ pc # "idle" =>
           \A k \in keys(canon_by_shape) :
               Cardinality(GroupNow(k)) = 1 =>
                   /\ group(canon_by_shape, k) = GroupNow(k)
                   /\ \A e \in DOMAIN eclass_mergers :
                          \A x \in GroupNow(k) : as_eclass(x) \notin {e[1], e[2]}

\* an inner iteration with two groups of one e-node next to a group of two
C15_Witness ==
    /\ pc = "inner"
    /\ GroupNow(Sub(C(0), C(2))) = {N(1), N(4)}
    /\ GroupNow(Add(C(2), C(1))) = {N(0)}
    /\ GroupNow(Add(C(2), C(4))) = {N(5)}
    /\ DOMAIN eclass_mergers = {<<C(1), C(4)>>, <<C(4), C(1)>>}

\* C16: with no rewrite output, in a quiescent state two Add e-nodes whose
\* canonical shapes are Add(x, y) and Add(y, x) with x # y have different
\* canonical ids, each shape has its own entry in canonical_enodes, and no
\* merge edge joins the two e-nodes.
C16_NoCommutativity ==
    (Quiescent /\ NoRewriteOutput) =>
        \A r1 \in Hashconsed : \A r2 \in Hashconsed :
            ( /\ is_add(r1[2]) /\ is_add(r2[2])
              /\ lhs(CanonShape(r1[2])) = rhs(CanonShape(r2[2]))
              /\ rhs(CanonShape(r1[2])) = lhs(CanonShape(r2[2]))
              /\ lhs(CanonShape(r1[2])) # rhs(CanonShape(r1[2])) )
            => /\ CanonOf(r1[1]) # CanonOf(r2[1])
               /\ \E e1 \in DOMAIN canon_enodes : \E e2 \in DOMAIN canon_enodes :
                      /\ e1[2] = CanonShape(r1[2]) /\ e2[2] = CanonShape(r2[2])
                      /\ e1[1] # e2[1]
               /\ <<r1[1][2], r2[1][2]>> \notin MergeEdges

\* Add(2,3) and Add(3,2) over two constants, both kept
C16_Witness ==
    /\ Quiescent /\ NoRewriteOutput
    /\ {N(2), N(3)} \subseteq StoredIds
    /\ DOMAIN canon_enodes = {<<N(0), Add(C(2), C(3))>>, <<N(1), Add(C(3), C(2))>>}
    /\ CanonOf(N(0)) = {C(0)} /\ CanonOf(N(1)) = {C(1)}

\* C17: in a quiescent state an Add or Sub e-node with an operand that is
\* not the id of an e-node of the store has no entry in canonical_enodes
\* and is the endpoint of no canonicalizer edge.
C17_DanglingOperandSilent ==
    Quiescent =>
        \A r \in DOMAIN enodes :
            ( /\ is_add(r[2]) \/ is_sub(r[2])
              /\ \E o \in {lhs(r[2]), rhs(r[2])} : as_enode(o) \notin StoredIds )
            => /\ \A e \in DOMAIN canon_enodes : e[1] # r[1]
               /\ \A e \in DOMAIN eclass_mergers : as_eclass(r[1]) \notin {e[1], e[2]}

\* the merge edges both of whose endpoints are ids of e-nodes of the store
EffectiveMergeEdges ==
    {e \in MergeEdges : ENodeId(e[1]) \in StoredIds /\ ENodeId(e[2]) \in StoredIds}

\* C18: in a quiescent state a merge edge with an endpoint that is not the
\* id of an e-node of the store has no effect: the canonical id of every
\* e-node of the store is the least id it reaches through the edges whose
\* endpoints are both in the store.
C18_LatentMerges ==
    Quiescent =>
        \A x \in StoredIds :
            CanonOf(x) = {EClassId(MinInt(Reachable({x[2]}, EffectiveMergeEdges)))}

\* the merge relation and the edges that the coming inner iteration hands on
MergeInputNow == merge_input(eclass_mergers, eclass_mergers_feedback)
PropagatedEdgesNow == canonicalized_edges(MergeInputNow)

\* C19 as claimed: in every inner iteration every edge handed to label
\* propagation has multiplicity 1 (an edge of multiplicity 0 is not held).
C19_EdgesClamped ==
    pc = "inner" => \A e \in DOMAIN PropagatedEdgesNow : PropagatedEdgesNow[e] = 1

\* C19 amended: in every inner iteration every merge handed to
\* derive_canonical_eclass_ids has multiplicity 1, and every edge handed to
\* label propagation has multiplicity 1 or 2: 2 exactly when the merge is
\* there in both directions or is a self-loop.
C19_MergesClamped ==
    pc = "inner" =>
        /\ \A m \in DOMAIN MergeInputNow : MergeInputNow[m] = 1
        /\ \A e \in DOMAIN PropagatedEdgesNow :
               /\ PropagatedEdgesNow[e] \in {1, 2}
               /\ PropagatedEdgesNow[e] = 2 <=>
                      ( \/ e[1] = e[2]
                        \/ {<<as_eclass(e[1]), as_eclass(e[2])>>,
                            <<as_eclass(e[2]), as_eclass(e[1])>>} \subseteq DOMAIN MergeInputNow )

\* the merge (0,3) comes twice, asserted and from the rewrite, next to
\* canonicalizer edges in both directions
C19_Witness ==
    /\ pc = "inner"
    /\ Mult(eclass_mergers_feedback, <<C(0), C(3)>>) = 2
    /\ {<<C(1), C(4)>>, <<C(4), C(1)>>} \subseteq DOMAIN eclass_mergers
    /\ PropagatedEdgesNow[<<N(0), N(3)>>] = 1
    /\ PropagatedEdgesNow[<<N(1), N(4)>>] = 2

\* C20: when no merge comes from the rewrite rule, the engine is quiescent
\* after the first outer iteration that sees the batch, and the canonical id
\* of every e-node of the store is then already the least id of the store
\* reached through the merges, whatever the shape of the component.
C20_OneTick ==
    (Quiescent /\ epoch >= 1 /\ chain_merges = Empty) =>
        /\ outer = 1
        /\ \A x \in StoredIds :
               CanonOf(x) = {EClassId(MinInt(Reachable({x[2]}, MergeEdges)
                                                \cap {y[2] : y \in StoredIds}))}

\* four constants and the 4-cycle (0,1), (0,2), (1,3), (2,3): all map to 0
\* after one outer iteration
C20_Witness ==
    /\ Quiescent /\ outer = 1
    /\ StoredIds = {N(0), N(1), N(2), N(3)}
    /\ DOMAIN asserted = {<<C(0), C(1)>>, <<C(0), C(2)>>, <<C(1), C(3)>>, <<C(2), C(3)>>}
    /\ DOMAIN enode_eclass_lookup = {<<N(0), C(0)>>, <<N(1), C(0)>>,
                                     <<N(2), C(0)>>, <<N(3), C(0)>>}

-----------------------------------------------------------------------------
-----------------------------------------------------------------------------
(* The host inserting the updates of one input time one by one             *)

\* the updates the host may insert before one flush
MaxArrive == 4

\* update with a retraction of a record the collection does not hold dropped
update_as_set(c, x, d) ==
    IF Mult(c, x) + d < 0 THEN c ELSE concat(c, MkBag({x}, LAMBDA y : d))

\* InputSession::insert / remove: one update of one record, summed into the
\* collection at the input time
update(c, x, d) == concat(c, MkBag({x}, LAMBDA y : d))

OrderInit == Init /\ program = CommuteProgram

Insert ==
    /\ pc = "idle"
    /\ epoch = 0
    /\ Len(arrived) < MaxArrive
    /\ \E x \in program.records \cup program.merges : \E d \in {-1, 1} :
          /\ arrived' = Append(arrived, <<x, d>>)
          /\ enodes' = IF x \in program.records THEN update(enodes, x, d) ELSE enodes
          /\ asserted' = IF x \in program.merges THEN update(asserted, x, d) ELSE asserted
    /\ UNCHANGED <<program, epoch, outer, enodes_feedback, eclass_mergers_feedback,
                   eclass_mergers, union_find, canon_by_shape, enode_eclass_lookup,
                   canon_enodes, chain_merges, enodes_neu, eclass_lookup_neu, pc,
                   calls, arg, result>>

\* advance_to and flush: the updates inserted become the batch of the input
\* time, which holds no record a negative number of times
Flush ==
    /\ pc = "idle"
    /\ epoch = 0
    /\ arrived # <<>>
    /\ \A x \in program.records \cup program.merges :
           Mult(concat(enodes, asserted), x) \in 0..program.copies
    /\ epoch' = epoch + 1
    /\ outer' = 0
    /\ enodes_feedback' = Empty
    /\ eclass_mergers_feedback' = Empty
    /\ eclass_mergers' = Empty
    /\ union_find' = Empty
    /\ canon_by_shape' = Empty
    /\ enode_eclass_lookup' = Empty
    /\ canon_enodes' = Empty
    /\ pc' = "inner"
    /\ UNCHANGED <<program, enodes, asserted, chain_merges, enodes_neu,
                   eclass_lookup_neu, others>>

OrderNext == Insert \/ Flush \/ InnerStep \/ OuterStep

OrderSpec == OrderInit /\ [][OrderNext]_vars

\* the store and the merges a sequence of updates sums to, taken in its order
RECURSIVE arrive(_, _, _)
arrive(updates, store, merges) ==
    IF updates = <<>> THEN [enodes |-> store, asserted |-> merges]
    ELSE LET u == Head(updates)
         IN  IF u[1] \in CommuteProgram.records
             THEN arrive(Tail(updates), update(store, u[1], u[2]), merges)
             ELSE arrive(Tail(updates), store, update(merges, u[1], u[2]))

\* every order of a sequence of updates
Orders(updates) ==
    {[i \in 1..Len(updates) |-> updates[p[i]]] : p \in Permutations(1..Len(updates))}

\* C22: the quiescent outputs of the input time are those the engine
\* computes from the updates of that time taken in any other order.
C22_OrderInsensitive ==
    (Quiescent /\ epoch = 1) =>
        \A s \in {arrive(o, Empty, Empty) : o \in Orders(arrived)} :
            LET alone == inner_fixpoint(s.enodes, s.asserted, Empty)
            IN  /\ enode_eclass_lookup = alone.union_find
                /\ canon_enodes = alone.canon_enodes

\* a retraction arrived before the insertion it cancels, and the batch
\* merged two classes
C22_Witness ==
    /\ Quiescent /\ epoch = 1
    /\ Len(arrived) = MaxArrive
    /\ arrived[1][2] = -1
    /\ \E i \in 2..Len(arrived) : arrived[i] = <<arrived[1][1], 1>>
    /\ \E x \in DOMAIN enode_eclass_lookup : as_eclass(x[1]) # x[2]

-----------------------------------------------------------------------------
(* A host that replaces the shape of an e-node                             *)

\* Two e-nodes and two constants; e-node 0 is held under one of two shapes.
ReplaceProgram ==
    [records |-> { <<N(0), Add(C(2), C(3))>>, <<N(0), Add(C(3), C(2))>>,
                   <<N(1), Add(C(3), C(2))>>,
                   <<N(2), Constant>>, <<N(3), Constant>> },
     merges |-> { <<C(2), C(3)>> },
     copies |-> 1, seed |-> {}, batches |-> MaxEpoch]

ReplaceInit ==
    /\ program = ReplaceProgram
    /\ epoch = 0
    /\ enodes = Empty
    /\ asserted = Empty
    /\ outer = 0
    /\ enodes_feedback = Empty
    /\ eclass_mergers_feedback = Empty
    /\ eclass_mergers = Empty
    /\ union_find = Empty
    /\ canon_by_shape = Empty
    /\ enode_eclass_lookup = Empty
    /\ canon_enodes = Empty
    /\ chain_merges = Empty
    /\ enodes_neu = Empty
    /\ eclass_lookup_neu = Empty
    /\ pc = "idle"
    /\ arrived = <<>>
    /\ calls = <<>>
    /\ arg = <<>>
    /\ result = <<>>

ReplaceSpec == ReplaceInit /\ [][Next]_vars

\* the batch of the current input time retracted the one shape an id had
\* and inserted another one for it
Replaced(id) ==
    /\ Cardinality(group(enodes_neu, id)) = 1
    /\ Cardinality(group(enodes, id)) = 1
    /\ group(enodes, id) # group(enodes_neu, id)

-----------------------------------------------------------------------------
\* C24: from the iteration of the outer scope that sees the batch on, the
\* e-node relation the union-find, the canonicalizer and the rewrites read is
\* the concatenation of the host's streams, before it it is empty, and no
\* step of the engine changes the host's streams.
C24_StoreReadOnly ==
    [][ /\ (outer' >= 1 => enodes_feedback' = enodes')
        /\ (outer' = 0 => enodes_feedback' = Empty)
        /\ (epoch' = epoch => enodes' = enodes) ]_vars

\* the canonicalizer gave a canonical shape that differs from the stored one
\* and the rewrite gave a merge, in a later iteration of the outer scope
C24_Witness ==
    /\ outer = 2 /\ pc = "outer"
    /\ chain_merges # Empty
    /\ enodes_feedback = enodes
    /\ \E x \in DOMAIN reverse(canon_by_shape) : x \notin DOMAIN enodes

-----------------------------------------------------------------------------
(* The host building the dataflow: add_enodes and add_rewrite              *)

\* the calls the host may make on the EGraph before feedback
MaxCalls == 4

\* The store of tests::union_find, split over several streams, and two
\* closure rewrites; the Add e-node arrives one input time after the rest.
BuildProgram ==
    [records |-> { <<N(0), Add(C(2), C(1))>>, <<N(1), Sub(C(3), C(2))>>,
                   <<N(2), Constant>>, <<N(3), Constant>> },
     merges |-> { <<C(2), C(3)>>, <<C(1), C(3)>> },
     copies |-> MaxCalls, seed |-> {}, batches |-> MaxEpoch - 1]
Streams ==
    { { <<N(0), Add(C(2), C(1))>> },
      { <<N(1), Sub(C(3), C(2))>>, <<N(2), Constant>>, <<N(3), Constant>> },
      { <<N(0), Add(C(2), C(1))>>, <<N(1), Sub(C(3), C(2))>> },
      { <<N(2), Constant>>, <<N(3), Constant>> } }
Closures == { { <<C(2), C(3)>> }, { <<C(1), C(3)>> } }

\* a call on the EGraph, with what it was given
AddEnodes(stream) ==
    [fn |-> "add_enodes", stream |-> stream, rewrite |-> "", merges |-> {}]
AddRewrite(rewrite, merges) ==
    [fn |-> "add_rewrite", stream |-> {}, rewrite |-> rewrite, merges |-> merges]

\* EGraph.enodes and EGraph.eclass_mergers: the vectors the calls pushed to
self_enodes(made) == SelectSeq(made, LAMBDA c : c.fn = "add_enodes")
self_eclass_mergers(made) == SelectSeq(made, LAMBDA c : c.fn = "add_rewrite")

\* the input time a record of the host arrives at
arrives(record) == IF is_add(record[2]) THEN 2 ELSE 1
\* a stream accumulated at an input time
stream_at(stream, time) == MkBag({x \in stream : arrives(x) <= time}, LAMBDA x : 1)
\* what a closure rewrite renders: its merges, from the first input time on
rendered(rewrite) == MkBag(rewrite.merges, LAMBDA x : 1)

\* concatenate keeping the collection pushed last alone
concatenate_last(collections) ==
    IF collections = <<>> THEN Empty ELSE collections[Len(collections)]

\* concatenate(scope, iter): the sum of the collections
RECURSIVE concatenate(_)
concatenate(collections) ==
    IF collections = <<>> THEN Empty
    ELSE concat(Head(collections), concatenate(Tail(collections)))

BuildInit ==
    /\ program = BuildProgram
    /\ epoch = 0
    /\ enodes = Empty
    /\ asserted = Empty
    /\ outer = 0
    /\ enodes_feedback = Empty
    /\ eclass_mergers_feedback = Empty
    /\ eclass_mergers = Empty
    /\ union_find = Empty
    /\ canon_by_shape = Empty
    /\ enode_eclass_lookup = Empty
    /\ canon_enodes = Empty
    /\ chain_merges = Empty
    /\ enodes_neu = Empty
    /\ eclass_lookup_neu = Empty
    /\ pc = "idle"
    /\ arrived = <<>>
    /\ calls = <<>>
    /\ arg = <<>>
    /\ result = <<>>

\* EGraph::add_enodes: the stream is pushed to EGraph.enodes
add_enodes ==
    /\ pc = "idle"
    /\ epoch = 0
    /\ Len(calls) < MaxCalls
    /\ \E stream \in Streams : calls' = Append(calls, AddEnodes(stream))
    /\ UNCHANGED <<program, epoch, enodes, asserted, outer, enodes_feedback,
                   eclass_mergers_feedback, eclass_mergers, union_find, canon_by_shape,
                   enode_eclass_lookup, canon_enodes, chain_merges, enodes_neu,
                   eclass_lookup_neu, pc, arrived, arg, result>>

\* EGraph::add_rewrite: the rewrite is rendered against the feedback
\* variable and the arrangements, and its output pushed to
\* EGraph.eclass_mergers; RedundantAddSubChain is registered once
add_rewrite ==
    /\ pc = "idle"
    /\ epoch = 0
    /\ Len(calls) < MaxCalls
    /\ \/ /\ \A i \in 1..Len(calls) : calls[i].rewrite # "RedundantAddSubChain"
          /\ calls' = Append(calls, AddRewrite("RedundantAddSubChain", {}))
       \/ \E merges \in Closures : calls' = Append(calls, AddRewrite("closure", merges))
    /\ UNCHANGED <<program, epoch, enodes, asserted, outer, enodes_feedback,
                   eclass_mergers_feedback, eclass_mergers, union_find, canon_by_shape,
                   enode_eclass_lookup, canon_enodes, chain_merges, enodes_neu,
                   eclass_lookup_neu, pc, arrived, arg, result>>

\* feedback, and the input times of the host: the streams and the closure
\* rewrites' outputs, concatenated, as they are at the next input time
BuildAdvance ==
    /\ pc = "idle"
    /\ epoch < program.batches
    /\ \E i \in 1..Len(calls) : calls[i].rewrite = "RedundantAddSubChain"
    /\ self_enodes(calls) # <<>>
    /\ enodes' = concatenate([i \in 1..Len(self_enodes(calls)) |->
                                 stream_at(self_enodes(calls)[i].stream, epoch + 1)])
    /\ asserted' = concatenate([i \in 1..Len(self_eclass_mergers(calls)) |->
                                   rendered(self_eclass_mergers(calls)[i])])
    /\ epoch' = epoch + 1
    /\ outer' = 0
    /\ enodes_feedback' = Empty
    /\ eclass_mergers_feedback' = Empty
    /\ eclass_mergers' = Empty
    /\ union_find' = Empty
    /\ canon_by_shape' = Empty
    /\ enode_eclass_lookup' = Empty
    /\ canon_enodes' = Empty
    /\ pc' = "inner"
    /\ UNCHANGED <<program, chain_merges, enodes_neu, eclass_lookup_neu, others>>

BuildNext == add_enodes \/ add_rewrite \/ BuildAdvance \/ InnerStep \/ OuterStep

BuildSpec == BuildInit /\ [][BuildNext]_vars

\* one stream equal to the multiset sum of the registered streams, at an
\* input time: every record as often as there are add_enodes calls with it
one_stream(time) ==
    MkBag({x \in BuildProgram.records : arrives(x) <= time},
          LAMBDA x : Cardinality({i \in 1..Len(calls) :
                                     calls[i].fn = "add_enodes" /\ x \in calls[i].stream}))
\* the merges of the registered closure rewrites, each as often as it is
\* registered
closure_sum ==
    MkBag(BuildProgram.merges,
          LAMBDA x : Cardinality({i \in 1..Len(calls) : x \in calls[i].merges}))

\* the quiescent outputs of the engine fed one stream: the first input time
\* gives the rule nothing, the second gives it the Add e-nodes that arrived
one_stream_outputs(time) ==
    LET first == inner_fixpoint(one_stream(1), closure_sum, Empty)
        chain == changes_1(differentiate(add_nodes_by_lhs(one_stream(2)),
                                         add_nodes_by_lhs(one_stream(1))),
                           first.union_find, sub_nodes_by_id(one_stream(1)))
    IN  IF time = 1 THEN first
        ELSE inner_fixpoint(one_stream(2), concat(closure_sum, chain), Empty)

\* C25: whatever the number and the order of the add_enodes calls and their
\* place among the add_rewrite calls, the quiescent outputs are those of the
\* engine with one stream equal to the multiset sum of the streams.
C25_AddEnodesAdditive ==
    (Quiescent /\ epoch >= 1) =>
        LET one == one_stream_outputs(IF epoch = 1 THEN 1 ELSE 2)
        IN  /\ enode_eclass_lookup = one.union_find
            /\ canon_enodes = one.canon_enodes

\* the Add e-node came in a stream registered after the rewrite, the rest in
\* a stream registered before it, and the rule merged 0 and 3
C25_Witness ==
    /\ Quiescent /\ epoch = 2
    /\ Len(calls) >= 3
    /\ calls[1].fn = "add_enodes" /\ calls[1].stream \in Streams
    /\ <<N(0), Add(C(2), C(1))>> \notin calls[1].stream
    /\ calls[2].rewrite = "RedundantAddSubChain"
    /\ calls[3].stream = { <<N(0), Add(C(2), C(1))>> }
    /\ <<C(0), C(3)>> \in DOMAIN chain_merges
    /\ CanonOf(N(3)) = {C(0)}

-----------------------------------------------------------------------------
\* the outputs of the rewrites registered by a sequence of calls, concatenated
rewrite_outputs(made) ==
    concatenate([i \in 1..Len(self_eclass_mergers(made)) |->
                    rendered(self_eclass_mergers(made)[i])])

\* C26: from the iteration that sees the batch on, the merge relation fed
\* back is the sum of the outputs of all registered rewrites (the closures'
\* merges, and from the next iteration on the merges of
\* RedundantAddSubChain), and the union-find's merge input is made of these
\* and the canonicalizer's edges; the sum is the same for every order of
\* registration, and in a quiescent state the two ids of every merge of every
\* registered rewrite have one canonical id.
C26_RewritesCompose ==
    LET sum == concat(closure_sum, IF outer >= 2 THEN chain_merges ELSE Empty)
    IN  /\ outer >= 1 =>
               /\ eclass_mergers_feedback = sum
               /\ DOMAIN MergeInputNow = DOMAIN eclass_mergers \cup DOMAIN sum
        /\ (Quiescent /\ epoch >= 1) =>
               /\ \A o \in Orders(calls) : rewrite_outputs(o) = asserted
               /\ \A m \in DOMAIN closure_sum \cup DOMAIN chain_merges :
                      CanonOf(as_enode(m[1])) = CanonOf(as_enode(m[2]))

\* a closure registered before RedundantAddSubChain, both with a merge that
\* shaped the classes: 2 and 3 by the closure, 0 and 3 by the rule
C26_Witness ==
    /\ Quiescent /\ epoch = 2
    /\ \E i \in 1..Len(calls) : \E j \in 1..Len(calls) :
           /\ i < j
           /\ calls[i].rewrite = "closure" /\ calls[i].merges = { <<C(2), C(3)>> }
           /\ calls[j].rewrite = "RedundantAddSubChain"
    /\ <<C(0), C(3)>> \in DOMAIN chain_merges
    /\ CanonOf(N(2)) = {C(0)}
    /\ CanonOf(N(3)) = {C(0)}

-----------------------------------------------------------------------------
(* The identifiers over the whole of u64                                   *)

\* A u64 as four 16-bit limbs, the most significant first; the limbs taken
\* are the least two and the greatest.
Limbs == {0, 1, 2^16 - 1}
U64 == Limbs \X Limbs \X Limbs \X Limbs

\* u64's order, on the limbs
u64_less(x, y) ==
    \E i \in 1..4 : x[i] < y[i] /\ \A j \in 1..(i - 1) : x[j] = y[j]
\* #[derive(PartialOrd, Ord)] on EClassId and ENodeId: the order of the
\* carriers
id_less(a, b) == u64_less(a[2], b[2])

IdInit ==
    /\ program = ChainProgram
    /\ epoch = 0
    /\ enodes = Empty
    /\ asserted = Empty
    /\ outer = 0
    /\ enodes_feedback = Empty
    /\ eclass_mergers_feedback = Empty
    /\ eclass_mergers = Empty
    /\ union_find = Empty
    /\ canon_by_shape = Empty
    /\ enode_eclass_lookup = Empty
    /\ canon_enodes = Empty
    /\ chain_merges = Empty
    /\ enodes_neu = Empty
    /\ eclass_lookup_neu = Empty
    /\ pc = "idle"
    /\ arrived = <<>>
    /\ calls = <<>>
    /\ arg \in U64 \X U64
    /\ result = <<>>

\* two ENodeIds reinterpreted as EClassIds, and back
ReinterpretENodes ==
    /\ pc = "idle"
    /\ LET a == ENodeId(arg[1])
           b == ENodeId(arg[2])
       IN  result' = [there |-> <<as_eclass(a), as_eclass(b)>>,
                      back |-> <<as_enode(as_eclass(a)), as_enode(as_eclass(b))>>]
    /\ pc' = "enodes"
    /\ UNCHANGED <<program, epoch, enodes, asserted, outer, enodes_feedback,
                   eclass_mergers_feedback, eclass_mergers, union_find, canon_by_shape,
                   enode_eclass_lookup, canon_enodes, chain_merges, enodes_neu,
                   eclass_lookup_neu, arrived, calls, arg>>

\* two EClassIds reinterpreted as ENodeIds, and back
ReinterpretEClasses ==
    /\ pc = "idle"
    /\ LET a == EClassId(arg[1])
           b == EClassId(arg[2])
       IN  result' = [there |-> <<as_enode(a), as_enode(b)>>,
                      back |-> <<as_eclass(as_enode(a)), as_eclass(as_enode(b))>>]
    /\ pc' = "eclasses"
    /\ UNCHANGED <<program, epoch, enodes, asserted, outer, enodes_feedback,
                   eclass_mergers_feedback, eclass_mergers, union_find, canon_by_shape,
                   enode_eclass_lookup, canon_enodes, chain_merges, enodes_neu,
                   eclass_lookup_neu, arrived, calls, arg>>

IdNext == ReinterpretENodes \/ ReinterpretEClasses

IdSpec == IdInit /\ [][IdNext]_vars

\* C27: for every value of the carrier, as_eclass followed by as_enode gives
\* the ENodeId back and as_enode followed by as_eclass gives the EClassId
\* back, the reinterpretation carries the same value, and two ENodeIds are
\* in the order their EClassIds are in.
C27_Reinterpretation ==
    /\ pc = "enodes" =>
           /\ result.back = <<ENodeId(arg[1]), ENodeId(arg[2])>>
           /\ result.there = <<EClassId(arg[1]), EClassId(arg[2])>>
           /\ id_less(ENodeId(arg[1]), ENodeId(arg[2]))
                  <=> id_less(result.there[1], result.there[2])
    /\ pc = "eclasses" =>
           /\ result.back = <<EClassId(arg[1]), EClassId(arg[2])>>
           /\ result.there = <<ENodeId(arg[1]), ENodeId(arg[2])>>
           /\ id_less(EClassId(arg[1]), EClassId(arg[2]))
                  <=> id_less(result.there[1], result.there[2])

\* two ENodeIds above 2^32 that differ in the upper half only, reinterpreted
C27_Witness ==
    /\ pc = "enodes"
    /\ arg = << <<0, 1, 0, 0>>, <<2^16 - 1, 1, 0, 0>> >>
    /\ id_less(result.there[1], result.there[2])

-----------------------------------------------------------------------------
(* InlineHeuristics                                                        *)

\* the greatest count a field of a record takes
MaxCount == 4

TRIVIALLY_INLINABLE == 10

\* InlineHeuristics::new
InlineHeuristics(branches, invocations, block_length, ssa_inst_length, function_calls, is_pure, is_recursive, estimated_asm) ==
    [branches |-> branches, invocations |-> invocations,
     block_length |-> block_length, ssa_inst_length |-> ssa_inst_length,
     function_calls |-> function_calls, is_pure |-> is_pure,
     is_recursive |-> is_recursive, estimated_asm |-> estimated_asm]

\* the counts taken stay far below the width of usize, so the sum is exact
inline_cost(self) ==
    self.invocations + self.block_length + self.branches + self.function_calls

trivially_inlinable(self) == inline_cost(self) > TRIVIALLY_INLINABLE

HeuristicsInit ==
    /\ program = ChainProgram
    /\ epoch = 0
    /\ enodes = Empty
    /\ asserted = Empty
    /\ outer = 0
    /\ enodes_feedback = Empty
    /\ eclass_mergers_feedback = Empty
    /\ eclass_mergers = Empty
    /\ union_find = Empty
    /\ canon_by_shape = Empty
    /\ enode_eclass_lookup = Empty
    /\ canon_enodes = Empty
    /\ chain_merges = Empty
    /\ enodes_neu = Empty
    /\ eclass_lookup_neu = Empty
    /\ pc = "idle"
    /\ arrived = <<>>
    /\ calls = <<>>
    /\ \E branches \in 0..MaxCount, invocations \in 0..MaxCount,
          block_length \in 0..MaxCount, function_calls \in 0..MaxCount,
          is_pure \in BOOLEAN, is_recursive \in BOOLEAN :
          arg = InlineHeuristics(branches, invocations, block_length, block_length,
                                 function_calls, is_pure, is_recursive, block_length)
    /\ result = <<>>

\* a call of trivially_inlinable on the record
TriviallyInlinable ==
    /\ pc = "idle"
    /\ result' = trivially_inlinable(arg)
    /\ pc' = "returned"
    /\ UNCHANGED <<program, epoch, enodes, asserted, outer, enodes_feedback,
                   eclass_mergers_feedback, eclass_mergers, union_find, canon_by_shape,
                   enode_eclass_lookup, canon_enodes, chain_merges, enodes_neu,
                   eclass_lookup_neu, arrived, calls, arg>>

HeuristicsNext == TriviallyInlinable

HeuristicsSpec == HeuristicsInit /\ [][HeuristicsNext]_vars

\* C28: trivially_inlinable returns true exactly for the records whose
\* inline_cost is at most TRIVIALLY_INLINABLE.
C28_TrueWhenSmall ==
    pc = "returned" => (result <=> inline_cost(arg) <= TRIVIALLY_INLINABLE)

-----------------------------------------------------------------------------
\* the merges the Horn clause derives by the full join over a store and a
\* canon: the chain of joins over the whole relations
horn_clause(store, lookup) ==
    changes_1(add_nodes_by_lhs(store), lookup, sub_nodes_by_id(store))

\* C29: in a quiescent state the merges integrated from the delta query are
\* the merges the Horn clause derives from the store and the canon of that
\* input time.
C29_DeltaJoinRefines ==
    Quiescent => DOMAIN chain_merges = DOMAIN horn_clause(enodes, enode_eclass_lookup)

\* C30: in a quiescent state every merge (a, f) the rule holds has, in the
\* store of that input time, an Add a with operands (b_raw, c_raw) and a Sub d
\* with operands (f, e_raw) such that canon(d) = canon(c_raw) and
\* canon(e_raw) = canon(b_raw).
C30_ChainSound ==
    Quiescent =>
        \A m \in DOMAIN chain_merges :
            chain_merges[m] > 0 =>
                \E a \in DOMAIN enodes : \E d \in DOMAIN enodes :
                    /\ is_add(a[2]) /\ is_sub(d[2])
                    /\ as_eclass(a[1]) = m[1]
                    /\ lhs(d[2]) = m[2]
                    /\ CanonOf(d[1]) # {}
                    /\ CanonOf(d[1]) = CanonOf(as_enode(rhs(a[2])))
                    /\ CanonOf(as_enode(rhs(d[2]))) # {}
                    /\ CanonOf(as_enode(rhs(d[2]))) = CanonOf(as_enode(lhs(a[2])))

-----------------------------------------------------------------------------
(* A store with three e-nodes of one canonical shape                       *)

\* Three Add e-nodes over two constants that a merge makes one class.
GroupProgram ==
    [records |-> { <<N(1), Add(C(4), C(5))>>, <<N(2), Add(C(5), C(4))>>,
                   <<N(3), Add(C(4), C(4))>>,
                   <<N(4), Constant>>, <<N(5), Constant>> },
     merges |-> { <<C(4), C(5)>> },
     copies |-> 1, seed |-> {}, batches |-> MaxEpoch]

GroupInit ==
    /\ program = GroupProgram
    /\ epoch = 0
    /\ enodes = Empty
    /\ asserted = Empty
    /\ outer = 0
    /\ enodes_feedback = Empty
    /\ eclass_mergers_feedback = Empty
    /\ eclass_mergers = Empty
    /\ union_find = Empty
    /\ canon_by_shape = Empty
    /\ enode_eclass_lookup = Empty
    /\ canon_enodes = Empty
    /\ chain_merges = Empty
    /\ enodes_neu = Empty
    /\ eclass_lookup_neu = Empty
    /\ pc = "idle"
    /\ arrived = <<>>
    /\ calls = <<>>
    /\ arg = <<>>
    /\ result = <<>>

GroupSpec == GroupInit /\ [][Next]_vars

\* the inner variable holds the edges of the inner iteration that computed
\* union_find
EdgesCurrent == pc # "inner" \/ eclass_mergers # Empty

\* the groups of e-nodes of one canonical shape, in the current iteration
GroupsNow ==
    {GroupNow(shape) : shape \in keys(canon_enodes_by_shape(enodes_feedback, union_find))}

\* C31: the canonicalizer's merge edges are, for every group of e-nodes of
\* one canonical shape, the edge from the least id of the group to each
\* other member and its reverse, each once, and nothing else.
C31_StarEdges ==
    EdgesCurrent =>
        /\ DOMAIN eclass_mergers =
               UNION {UNION {{<<as_eclass(MinId(G)), as_eclass(e)>>,
                              <<as_eclass(e), as_eclass(MinId(G))>>} : e \in G \ {MinId(G)}} :
                         G \in GroupsNow}
        /\ \A m \in DOMAIN eclass_mergers :
               /\ eclass_mergers[m] = 1
               /\ <<m[2], m[1]>> \in DOMAIN eclass_mergers
        /\ Cardinality(DOMAIN eclass_mergers) =
               2 * (Cardinality(UNION GroupsNow) - Cardinality(GroupsNow))

\* the three Add e-nodes are one group: edges (1,2), (1,3) and their
\* reverses, none between 2 and 3
C31_Witness ==
    /\ EdgesCurrent
    /\ GroupsNow = {{N(1), N(2), N(3)}}
    /\ DOMAIN eclass_mergers = {<<C(1), C(2)>>, <<C(2), C(1)>>, <<C(1), C(3)>>, <<C(3), C(1)>>}

-----------------------------------------------------------------------------
(* Label propagation, round by round                                       *)

\* the greatest id of a vertex or of an endpoint of a merge
MaxVertex == 4

\* the merges the propagation may be given: a ring over the ids
RingMerges == {<<C(i), C((i + 1) % (MaxVertex + 1))>> : i \in 0..MaxVertex}

PropagateInit ==
    /\ program = PathProgram
    /\ epoch = 0
    /\ enodes = Empty
    /\ asserted = Empty
    /\ outer = 0
    /\ enodes_feedback = Empty
    /\ eclass_mergers_feedback = Empty
    /\ eclass_mergers = Empty
    /\ union_find = Empty
    /\ canon_by_shape = Empty
    /\ enode_eclass_lookup = Empty
    /\ canon_enodes = Empty
    /\ chain_merges = Empty
    /\ enodes_neu = Empty
    /\ eclass_lookup_neu = Empty
    /\ pc = "rounds"
    /\ arrived = <<>>
    /\ calls = <<>>
    /\ \E merges \in SUBSET RingMerges : \E stored \in SUBSET (0..MaxVertex) :
          arg = [edges |-> canonicalized_edges(MkBag(merges, LAMBDA m : 1)),
                 nodes |-> implicit_eclass_assignment(
                               MkBag({<<N(i), Constant>> : i \in stored}, LAMBDA n : 1))]
    /\ result = [round |-> 0, proposals |-> Empty, labels |-> Empty]

\* one round of the propagation: the seeds introduced by now and the labels
\* in flight give the labels of the round, which are offered to the
\* neighbours; when nothing new is in flight the next seeds' round comes,
\* and when no seed is left the propagation stops
PropagateRound ==
    /\ pc = "rounds"
    /\ LET present == filter(arg.nodes, LAMBDA x : introduced_at(x[2]) <= result.round)
           labels == labels_of(result.proposals, present)
           next == propagate_step(labels, arg.edges)
           later == {introduced_at(x[2]) : x \in DOMAIN arg.nodes} \ (0..result.round)
       IN  /\ result' = [round |-> IF next # result.proposals THEN result.round + 1
                                   ELSE IF later # {} THEN MinInt(later)
                                   ELSE result.round,
                         proposals |-> next,
                         labels |-> labels]
           /\ pc' = IF next = result.proposals /\ later = {} THEN "done" ELSE "rounds"
    /\ UNCHANGED <<program, epoch, enodes, asserted, outer, enodes_feedback,
                   eclass_mergers_feedback, eclass_mergers, union_find, canon_by_shape,
                   enode_eclass_lookup, canon_enodes, chain_merges, enodes_neu,
                   eclass_lookup_neu, arrived, calls, arg>>

PropagateNext == PropagateRound

PropagateSpec == PropagateInit /\ [][PropagateNext]_vars

\* the vertices: the nodes the seed assignment gives a label of their own
Vertices == {x[1][2] : x \in DOMAIN arg.nodes}
\* the ids connected to an id by the edges
Component(id) == Reachable({id}, {<<e[1][2], e[2][2]>> : e \in DOMAIN arg.edges})
\* every id connected to a vertex holds one label, the least vertex of its
\* component
AllMinimal(labels) ==
    /\ {x[2] : x \in keys(labels)} = UNION {Component(v) : v \in Vertices}
    /\ \A x \in DOMAIN labels :
           x[2][2] = MinInt(Component(x[1][2]) \cap Vertices)
\* a seed is still to be introduced after the round
SeedsOutstanding(round) == \E x \in DOMAIN arg.nodes : introduced_at(x[2]) > round
\* from one round to the next no id's label increases or is lost
LabelsDescend ==
    \A x \in DOMAIN result.labels :
        \E y \in DOMAIN result'.labels : y[1] = x[1] /\ y[2][2] <= x[2][2]
\* every label held is a vertex of the component of the id that holds it
LabelsWithinComponent ==
    \A x \in DOMAIN result.labels : x[2][2] \in Component(x[1][2]) \cap Vertices
\* when the rounds have stopped every vertex holds the least vertex of its
\* component
StoppedAtMinimum ==
    pc = "done" => /\ AllMinimal(result.labels)
                   /\ result.labels = propagate_at(arg.edges, arg.nodes)

\* C32: a label never increases from one round to the next; every label held
\* in a round is a vertex of the component of the id that holds it; the
\* rounds stop only with every vertex at the least vertex of its component,
\* go on only while labels change or seeds are still to be introduced, and
\* the round after all labels are minimal is the last one provided every
\* seed has been introduced by then.
C32_Monotone ==
    /\ [](LabelsWithinComponent /\ StoppedAtMinimum)
    /\ [][ /\ LabelsDescend
           /\ pc' = "rounds" =>
                  (result'.labels # result.labels \/ SeedsOutstanding(result.round))
           /\ (AllMinimal(result.labels) /\ ~SeedsOutstanding(result.round)) =>
                  pc' = "done" ]_vars

\* C32 as stated: the round after all labels are minimal is the last one,
\* whether or not seeds are still to be introduced
C32_StopsAtMinimum ==
    /\ [](LabelsWithinComponent /\ StoppedAtMinimum)
    /\ [][ /\ LabelsDescend
           /\ AllMinimal(result.labels) => pc' = "done" ]_vars

\* the ring with all its merges over the vertices 1..MaxVertex: the label 1
\* has gone round, id 0, which is no vertex, holds it too
C32_Witness ==
    /\ pc = "done"
    /\ Vertices = 1..MaxVertex
    /\ Cardinality(DOMAIN arg.edges) = 2 * (MaxVertex + 1)
    /\ DOMAIN result.labels = {<<N(i), C(1)>> : i \in 0..MaxVertex}
    /\ result.round >= introduced_at(C(MaxVertex))

-----------------------------------------------------------------------------
(* The canonicalizer as a function of the store and the merge edges        *)

\* the stores the canonicalizer is given: two operands, two Add e-nodes over
\* them in opposite orders, and an e-node of its own; the same without the
\* Add e-nodes; and a store that lacks the least ids the merges mention
CanonStores ==
    { { <<N(0), Constant>>, <<N(1), Constant>>, <<N(2), Add(C(0), C(1))>>,
        <<N(3), Add(C(1), C(0))>>, <<N(4), Constant>> },
      { <<N(0), Constant>>, <<N(1), Constant>>, <<N(4), Constant>> },
      { <<N(1), Constant>>, <<N(3), Constant>>, <<N(4), Constant>> } }
\* the merges it may be given, each in one direction
CanonMerges == {<<C(a), C(b)>> : a \in 0..MaxVertex, b \in 1..MaxVertex} \
               {<<C(a), C(b)>> : a \in 2..MaxVertex, b \in 0..3}

\* the relation enode_to_eclass that union() returns for a store and the
\* merges of the rewrites
enode_to_eclass(store, raw_eclass_mergers) ==
    inner_fixpoint(store, raw_eclass_mergers, Empty).union_find

CanonInit ==
    /\ program = CommuteProgram
    /\ epoch = 0
    /\ enodes = Empty
    /\ asserted = Empty
    /\ outer = 0
    /\ enodes_feedback = Empty
    /\ eclass_mergers_feedback = Empty
    /\ eclass_mergers = Empty
    /\ union_find = Empty
    /\ canon_by_shape = Empty
    /\ enode_eclass_lookup = Empty
    /\ canon_enodes = Empty
    /\ chain_merges = Empty
    /\ enodes_neu = Empty
    /\ eclass_lookup_neu = Empty
    /\ pc = "given"
    /\ arrived = <<>>
    /\ calls = <<>>
    /\ \E store \in CanonStores : \E merges \in SUBSET CanonMerges :
          /\ Cardinality(merges) <= 2
          /\ arg = [store |-> MkBag(store, LAMBDA n : 1),
                    merges |-> MkBag(merges, LAMBDA m : 1)]
    /\ result = Empty

\* the canonicalizer run on the store and a relation of merges
Canonicalize(merges, how) ==
    /\ pc = IF how = "canonical" THEN "given" ELSE "canonical"
    /\ arg' = [arg EXCEPT !.merges = merges]
    /\ result' = enode_to_eclass(arg.store, merges)
    /\ pc' = how
    /\ UNCHANGED <<program, epoch, enodes, asserted, outer, enodes_feedback,
                   eclass_mergers_feedback, eclass_mergers, union_find, canon_by_shape,
                   enode_eclass_lookup, canon_enodes, chain_merges, enodes_neu,
                   eclass_lookup_neu, arrived, calls>>

\* union() over the store and the merges as given
Union == Canonicalize(arg.merges, "canonical")

\* a merge (a, b) is replaced by (b, a)
ReverseMerge ==
    \E m \in DOMAIN arg.merges :
        Canonicalize(concat(update(arg.merges, m, -arg.merges[m]),
                            MkBag({<<m[2], m[1]>>}, LAMBDA x : arg.merges[m])),
                     "reversed")

\* a merge is supplied once more
RepeatMerge ==
    \E m \in DOMAIN arg.merges :
        Canonicalize(update(arg.merges, m, MaxMult - 1), "repeated")

\* a merge of an id with itself is added
LoopMerge ==
    \E a \in 0..MaxVertex :
        Canonicalize(update(arg.merges, <<C(a), C(a)>>, 1), "looped")

CanonNext == Union \/ ReverseMerge \/ RepeatMerge \/ LoopMerge

CanonSpec == CanonInit /\ [][CanonNext]_vars

\* C33: replacing a merge (a, b) by (b, a), supplying a merge once more, or
\* adding a merge (a, a) of an id with itself leaves the relation
\* enode_to_eclass exactly as it was.
C33_DirectionAndMultiplicity ==
    [][pc' \in {"reversed", "repeated", "looped"} => result' = result]_vars

\* a merge of the two operands has been reversed; the Add e-nodes over them
\* share a class by congruence
C33_Witness ==
    /\ pc = "reversed"
    /\ <<C(1), C(0)>> \in DOMAIN arg.merges
    /\ <<N(3), C(2)>> \in DOMAIN result
    /\ <<N(1), C(0)>> \in DOMAIN result

\* the ids of the e-nodes of the store the canonicalizer was given
GivenIds == {n[1] : n \in DOMAIN arg.store}
\* the ids the merges mention
MentionedIds == UNION {{as_enode(m[1]), as_enode(m[2])} : m \in DOMAIN arg.merges}

\* C34: every canonical id that enode_to_eclass gives is the id of an e-node
\* of the store, whatever ids the merges mention.
C34_CanonIsStored ==
    pc # "given" => \A x \in DOMAIN result : as_enode(x[2]) \in GivenIds

\* the merges join two stored e-nodes through an id that is smaller than
\* both and absent from the store; the two share a canonical id
C34_Witness ==
    /\ pc = "reversed"
    /\ GivenIds = {N(1), N(3), N(4)}
    /\ DOMAIN arg.merges = {<<C(1), C(0)>>, <<C(0), C(3)>>}
    /\ <<N(3), C(1)>> \in DOMAIN result

\* C35: enode_to_eclass has an entry exactly for the ids of the e-nodes of
\* the store; a merge with an endpoint absent from the store creates no
\* entry for the absent id.
C35_DomainIsStore ==
    pc = "canonical" => keys(result) = GivenIds

\* one canon relation is at least as coarse as an earlier one on the ids of
\* the store: ids that shared a canonical id still share one, and no id's
\* canonical id is greater
Coarsens(earlier, later) ==
    LET stored(c) == filter(c, LAMBDA x : x[1] \in StoredIds)
    IN  /\ \A x \in DOMAIN stored(earlier) :
               \E y \in DOMAIN later : y[1] = x[1] /\ y[2][2] <= x[2][2]
        /\ \A x, y \in DOMAIN stored(earlier) :
               x[2] = y[2] =>
                   \E u, v \in DOMAIN later : u[1] = x[1] /\ v[1] = y[1] /\ u[2] = v[2]

\* C36: within one batch, the canon of a saturation iteration (union_find when
\* the inner scope is left) is at least as coarse on the stored ids as the
\* canon of the iteration before it (enode_eclass_lookup): classes stay
\* joined and no canonical id increases.
C36_CanonCoarsens ==
    (pc = "outer" /\ outer >= 1) => Coarsens(enode_eclass_lookup, union_find)

-----------------------------------------------------------------------------
(* E-nodes of different operators over the same operands                   *)

\* Two Add e-nodes and a Sub e-node over the same two operands, and a merge
\* of the operands.
VariantProgram ==
    [records |-> { <<N(0), Add(C(4), C(3))>>, <<N(1), Add(C(3), C(4))>>,
                   <<N(2), Sub(C(3), C(4))>>,
                   <<N(3), Constant>>, <<N(4), Constant>> },
     merges |-> { <<C(3), C(4)>> },
     copies |-> 1, seed |-> {}, batches |-> MaxEpoch]

VariantInit ==
    /\ program = VariantProgram
    /\ epoch = 0
    /\ enodes = Empty
    /\ asserted = Empty
    /\ outer = 0
    /\ enodes_feedback = Empty
    /\ eclass_mergers_feedback = Empty
    /\ eclass_mergers = Empty
    /\ union_find = Empty
    /\ canon_by_shape = Empty
    /\ enode_eclass_lookup = Empty
    /\ canon_enodes = Empty
    /\ chain_merges = Empty
    /\ enodes_neu = Empty
    /\ eclass_lookup_neu = Empty
    /\ pc = "idle"
    /\ arrived = <<>>
    /\ calls = <<>>
    /\ arg = <<>>
    /\ result = <<>>

VariantSpec == VariantInit /\ [][Next]_vars

\* the operators of the e-nodes the iteration holds under an id
VariantsOf(id) == {n[2][1] : n \in {m \in DOMAIN enodes_feedback : m[1] = id}}

\* C37: every edge the canonicalizer emits joins e-nodes of one operator;
\* an Add e-node and a Sub e-node never share a canonical id when no rewrite
\* merges them; and the canonical e-nodes of different operators have
\* different representatives, whatever their canonical operands.
C37_VariantsApart ==
    /\ \A e \in DOMAIN eclass_mergers :
           VariantsOf(as_enode(e[1])) = VariantsOf(as_enode(e[2]))
    /\ \A a \in DOMAIN add_nodes(enodes_feedback) :
       \A s \in DOMAIN sub_nodes(enodes_feedback) :
           group(union_find, a[1]) \cap group(union_find, s[1]) = {}
    /\ \A p, q \in DOMAIN canon_by_shape : p[1][1] # q[1][1] => p[2] # q[2]

\* the operands are merged: the two Add e-nodes share one canonical e-node,
\* the Sub e-node over the same canonical operands has its own
C37_Witness ==
    /\ pc = "outer"
    /\ DOMAIN canon_by_shape = { <<Add(C(3), C(3)), N(0)>>, <<Sub(C(3), C(3)), N(2)>> }
    /\ <<N(1), C(0)>> \in DOMAIN union_find
    /\ <<N(2), C(2)>> \in DOMAIN union_find

-----------------------------------------------------------------------------
(* Constant: the arithmetic of the constants of the value graph            *)

\* enum Constant { Uint8(u8), Bool(bool) }; a Bool carries 0 or 1
Uint8(value) == [variant |-> "Uint8", value |-> value]
Bool(value) == [variant |-> "Bool", value |-> value]
\* the outcome of a call that did not return: panic!() or an overflow check
Panicked == [variant |-> "panic", value |-> 0]

\* the bytes the operands are drawn from
Bytes == {0, 1, 2, 127, 128, 254, 255}
Constants == {Uint8(v) : v \in Bytes} \cup {Bool(0), Bool(1)}

\* u8 + u8 and u8 - u8: a build with overflow checks panics when the result
\* is out of range, a build without them wraps it modulo 2^8
u8_add(left, right) ==
    IF left + right < 2^8 THEN {Uint8(left + right)}
    ELSE {Panicked, Uint8((left + right) % 2^8)}
u8_sub(left, right) ==
    IF left >= right THEN {Uint8(left - right)}
    ELSE {Panicked, Uint8((left - right) % 2^8)}

\* impl Add<&Constant> for &Constant: the outcomes of self + rhs
constant_add(self, other) ==
    IF self.variant = "Uint8" /\ other.variant = "Uint8"
    THEN u8_add(self.value, other.value)
    ELSE {Panicked}

\* impl Sub<&Constant> for &Constant: the outcomes of self - rhs
constant_sub(self, other) ==
    IF self.variant = "Uint8" /\ other.variant = "Uint8"
    THEN u8_sub(self.value, other.value)
    ELSE {Panicked}

ConstantInit ==
    /\ program = ChainProgram
    /\ epoch = 0
    /\ enodes = Empty
    /\ asserted = Empty
    /\ outer = 0
    /\ enodes_feedback = Empty
    /\ eclass_mergers_feedback = Empty
    /\ eclass_mergers = Empty
    /\ union_find = Empty
    /\ canon_by_shape = Empty
    /\ enode_eclass_lookup = Empty
    /\ canon_enodes = Empty
    /\ chain_merges = Empty
    /\ enodes_neu = Empty
    /\ eclass_lookup_neu = Empty
    /\ pc = "operands"
    /\ arrived = <<>>
    /\ calls = <<>>
    /\ arg \in [self : Constants, rhs : Constants]
    /\ result = Panicked

ConstantUnchanged ==
    UNCHANGED <<program, epoch, enodes, asserted, outer, enodes_feedback,
                eclass_mergers_feedback, eclass_mergers, union_find, canon_by_shape,
                enode_eclass_lookup, canon_enodes, chain_merges, enodes_neu,
                eclass_lookup_neu, arrived, calls, arg>>

\* self + rhs
ConstantAdd ==
    /\ pc = "operands"
    /\ result' \in constant_add(arg.self, arg.rhs)
    /\ pc' = "added"
    /\ ConstantUnchanged

\* self - rhs
ConstantSub ==
    /\ pc = "operands"
    /\ result' \in constant_sub(arg.self, arg.rhs)
    /\ pc' = "subtracted"
    /\ ConstantUnchanged

ConstantNext == ConstantAdd \/ ConstantSub

ConstantSpec == ConstantInit /\ [][ConstantNext]_vars

\* C39: on two Uint8 the sum is Uint8(a + b) when a + b <= 255 and the
\* difference is Uint8(a - b) when a >= b; out of that range the operation
\* does not return (no value wrapped modulo 256 comes back); with a Bool
\* operand the operation does not return.
C39_NoSilentWrap ==
    LET a == arg.self.value
        b == arg.rhs.value
        both == arg.self.variant = "Uint8" /\ arg.rhs.variant = "Uint8"
    IN  /\ pc = "added" =>
               result = IF both /\ a + b <= 255 THEN Uint8(a + b) ELSE Panicked
        /\ pc = "subtracted" =>
               result = IF both /\ a >= b THEN Uint8(a - b) ELSE Panicked

-----------------------------------------------------------------------------
(* harvest_heuristics: the inlining heuristics of every function           *)

\* the greatest function, block and instruction id of a program
MaxFunc == 2
MaxBlock == 2
MaxInst == 2

\* an instruction as harvest_heuristics reads it: the callee of a Call (0
\* when the instruction is no Call), its purity and its estimated size
Instruction(callee, pure) ==
    [call |-> callee, pure |-> pure, estimated_instructions |-> 1]
Instructions ==
    {Instruction(0, TRUE), Instruction(0, FALSE)} \cup
    {Instruction(f, FALSE) : f \in 1..MaxFunc}

\* count_core: per key the sum of the multiplicities, once
count_core(c) == [x \in {<<k, c[k]>> : k \in DOMAIN c} |-> 1]

\* antijoin: the records whose key the other collection does not hold
antijoin(c, other) == MkBag(DOMAIN c, LAMBDA x : c[x] - c[x] * Mult(other, x[1]))

\* (func, inst) for every instruction of a block of the function
function_instructions(given) ==
    join_core(join_core(given.block_instructions, given.instructions,
                        LAMBDA inst_id, block, inst : <<block, <<inst_id, inst>>>>),
              given.function_blocks,
              LAMBDA block, inst, func : <<func, inst[2]>>)

\* the functions a relation has no entry for, each with the default
defaulted(given, found, default) ==
    concat(found,
           map(antijoin(given.function_descriptors, map(found, LAMBDA x : x[1])),
               LAMBDA d : <<d[1], default>>))

block_lengths(given) ==
    defaulted(given, count_core(map(given.function_blocks, LAMBDA x : x[2])), 0)

ssa_inst_lengths(given) ==
    defaulted(given, count_core(map(function_instructions(given), LAMBDA x : x[1])), 0)

\* the calls of a function, counted under the callee
invocations(given) ==
    defaulted(given,
              count_core(map(filter(function_instructions(given),
                                    LAMBDA x : x[2].call # 0),
                             LAMBDA x : x[2].call)),
              0)

branches(given) ==
    defaulted(given,
              count_core(join_core(filter(given.block_terminators,
                                          LAMBDA x : x[2].is_branching),
                                   given.function_blocks,
                                   LAMBDA block, term, func : func)),
              0)

\* the calls a function makes, counted under the caller
function_calls(given) ==
    defaulted(given,
              count_core(map(filter(function_instructions(given),
                                    LAMBDA x : x[2].call # 0),
                             LAMBDA x : x[1])),
              0)

is_pure(given) ==
    LET instructions == function_instructions(given)
    IN  defaulted(given,
                  [x \in {<<func, \A inst \in group(instructions, func) : inst.pure>> :
                             func \in keys(instructions)} |-> 1],
                  TRUE)

\* is_recursive taking every Call for a call of the function itself
is_recursive_any_call(given) ==
    defaulted(given,
              distinct_core(map(filter(function_instructions(given),
                                       LAMBDA x : x[2].call # 0),
                                LAMBDA x : <<x[1], TRUE>>)),
              FALSE)

is_recursive(given) ==
    defaulted(given,
              distinct_core(map(filter(function_instructions(given),
                                       LAMBDA x : x[2].call = x[1]),
                                LAMBDA x : <<x[1], TRUE>>)),
              FALSE)

estimated_asm(given) ==
    LET instructions == function_instructions(given)
        exploded == map(instructions, LAMBDA x : x[1])
    IN  defaulted(given,
                  [x \in {<<func,
                            SumMult(MkBag({y \in DOMAIN instructions : y[1] = func},
                                          LAMBDA y : instructions[y]
                                                     * y[2].estimated_instructions),
                                    {y \in DOMAIN instructions : y[1] = func})>> :
                             func \in DOMAIN exploded} |-> 1],
                  0)

\* join: (key, (left value, right value))
join(a, b) == join_core(a, b, LAMBDA k, l, r : <<k, <<l, r>>>>)

harvest_heuristics(given) ==
    join_core(join(join(join(join(join(join(block_lengths(given),
                                            ssa_inst_lengths(given)),
                                       invocations(given)),
                                  branches(given)),
                             function_calls(given)),
                        is_pure(given)),
                   estimated_asm(given)),
              is_recursive(given),
              LAMBDA func, v, recursive :
                  <<func, InlineHeuristics(v[1][1][1][2], v[1][1][1][1][2],
                                           v[1][1][1][1][1][1], v[1][1][1][1][1][2],
                                           v[1][1][2], v[1][2], recursive, v[2])>>)

\* a program: the functions described, the function of every block, whether
\* the block ends in a branch, and the block and the kind of every instruction
ProgramOf(described, function_of, branching, block_of, kind) ==
    LET blocks == {b \in 1..MaxBlock : function_of[b] # 0}
        insts == {i \in 1..MaxInst : block_of[i] # 0}
    IN  [function_descriptors |-> MkBag({<<f, "descriptor">> : f \in described},
                                        LAMBDA x : 1),
         function_blocks |-> MkBag({<<b, function_of[b]>> : b \in blocks}, LAMBDA x : 1),
         block_terminators |-> MkBag({<<b, [is_branching |-> branching[b]]>> : b \in blocks},
                                     LAMBDA x : 1),
         block_instructions |-> MkBag({<<i, block_of[i]>> : i \in insts}, LAMBDA x : 1),
         instructions |-> MkBag({<<i, kind[i]>> : i \in insts}, LAMBDA x : 1)]

HarvestInit ==
    /\ program = ChainProgram
    /\ epoch = 0
    /\ enodes = Empty
    /\ asserted = Empty
    /\ outer = 0
    /\ enodes_feedback = Empty
    /\ eclass_mergers_feedback = Empty
    /\ eclass_mergers = Empty
    /\ union_find = Empty
    /\ canon_by_shape = Empty
    /\ enode_eclass_lookup = Empty
    /\ canon_enodes = Empty
    /\ chain_merges = Empty
    /\ enodes_neu = Empty
    /\ eclass_lookup_neu = Empty
    /\ pc = "program"
    /\ arrived = <<>>
    /\ calls = <<>>
    /\ \E described \in SUBSET (1..MaxFunc) \ {{}} :
       \E function_of \in [1..MaxBlock -> {0} \cup described] :
       \E branching \in [1..MaxBlock -> BOOLEAN] :
       \E block_of \in [1..MaxInst -> 0..MaxBlock] :
       \E kind \in [1..MaxInst -> Instructions] :
          /\ \A b \in 1..MaxBlock : function_of[b] = 0 => ~branching[b]
          /\ \A i \in 1..MaxInst :
                 IF block_of[i] = 0 THEN kind[i] = Instruction(0, TRUE)
                 ELSE function_of[block_of[i]] # 0
          /\ arg = ProgramOf(described, function_of, branching, block_of, kind)
    /\ result = Empty

\* the dataflow of harvest_heuristics run over the program
HarvestHeuristics ==
    /\ pc = "program"
    /\ result' = harvest_heuristics(arg)
    /\ pc' = "harvested"
    /\ UNCHANGED <<program, epoch, enodes, asserted, outer, enodes_feedback,
                   eclass_mergers_feedback, eclass_mergers, union_find, canon_by_shape,
                   enode_eclass_lookup, canon_enodes, chain_merges, enodes_neu,
                   eclass_lookup_neu, arrived, calls, arg>>

HarvestNext == HarvestHeuristics

HarvestSpec == HarvestInit /\ [][HarvestNext]_vars

\* the functions of function_descriptors
Described == keys(arg.function_descriptors)
\* the instructions of the blocks of a function
BodyOf(func) ==
    {x[2] : x \in {y \in DOMAIN arg.instructions :
                       \E b \in keys(arg.function_blocks) :
                           /\ <<y[1], b>> \in DOMAIN arg.block_instructions
                           /\ <<b, func>> \in DOMAIN arg.function_blocks}}
\* the function has no block and no Call names it
Bare(func) ==
    /\ func \notin {x[2] : x \in DOMAIN arg.function_blocks}
    /\ \A x \in DOMAIN arg.instructions : x[2].call # func

\* C38: harvest_heuristics gives every function of function_descriptors one
\* record, once; a function with no block (hence no instruction, call or
\* branch) that no Call names gets the counts 0, is_pure true and
\* is_recursive false; is_recursive is true exactly when an instruction of
\* the function is a Call of the function itself.
C38_OneRecordEach ==
    pc = "harvested" =>
        \A func \in Described :
            /\ Cardinality(group(result, func)) = 1
            /\ \A x \in DOMAIN result : x[1] = func => result[x] = 1
            /\ Bare(func) =>
                   group(result, func) =
                       {InlineHeuristics(0, 0, 0, 0, 0, TRUE, FALSE, 0)}
            /\ \A h \in group(result, func) :
                   h.is_recursive <=> \E inst \in BodyOf(func) : inst.call = func

\* of two functions one has no block and is not called, the other calls
\* itself and nothing else
C38_Witness ==
    /\ pc = "harvested"
    /\ Described = {1, 2}
    /\ Bare(1)
    /\ <<2, InlineHeuristics(0, 1, 1, 1, 1, FALSE, TRUE, 1)>> \in DOMAIN result

=============================================================================
